---- MODULE Spec2Model ----
(***************************************************************************)
(* Polling/publish orchestration core of the EthernetIP-to-MQTT bridge.    *)
(*                                                                         *)
(* Two implementations live in the repository and both are modelled:       *)
(*   - services/plc_manager.py: PLCManager (registry, no lock) and         *)
(*     PLCConnection (one session, its run flag and its _poll_loop         *)
(*     threads), driven by the HTTP handlers of routes/devices.py;         *)
(*   - app.py: EthernetIPMQTTBridge (registry guarded by a non-reentrant   *)
(*     threading.Lock) and its device_loop threads.                        *)
(*                                                                         *)
(* A caller is one thread of the HTTP server executing one handler; a loop *)
(* is one threading.Thread running _poll_loop / device_loop.  Every step   *)
(* reads or writes shared state at most at one place of the code, so that  *)
(* the interleavings the interpreter allows between two statements are     *)
(* interleavings of the model.                                             *)
(***************************************************************************)
EXTENDS Integers, Sequences, FiniteSets, TLC

\* ------------------------------------------------------------- bounds
\* Total number of API calls issued in one behaviour.  Every call creates
\* at most one session object and at most one thread, so MaxCalls also
\* bounds the number of PLCConnection objects and of loop threads.
MaxCalls == 4

DeviceIds == {"d1", "d2"}
Callers == {"c1", "c2"}
Sessions == 1..MaxCalls
Threads == 1..MaxCalls
None == 0

VARIABLES
    \* PLCManager / PLCConnection (services/plc_manager.py)
    connections,   \* PLCManager.connections: device_id -> session object or None
    nobj,          \* number of PLCConnection objects constructed so far
    running,       \* PLCConnection.running
    connected,     \* PLCConnection.connected
    thread,        \* PLCConnection.thread (the Thread last created by start())
    nthr,          \* number of Thread objects created so far
    tpc,           \* position of each _poll_loop thread
    tself,         \* the PLCConnection a _poll_loop thread is bound to (self)
    \* callers (handler threads)
    pc,            \* position of each caller
    meth,          \* the PLCManager method the caller is (or was last) in
    arg,           \* its device_id argument
    conn,          \* its local variable `connection`
    ret,           \* what the last method (or handler) returned or raised
    cont,          \* where the caller continues when the method returns
    prevCall,      \* <<method, device_id, result>> of the caller's previous call
    ncalls,        \* API calls issued so far
    was_running,   \* local of the devices route update_device
    statusOut,     \* the snapshot a get_status() returned to the caller
    itSize,        \* get_all_status: dict size when the iteration began
    allOut,        \* get_all_status: device ids whose snapshot was collected
    bid,           \* app.py: the device_id argument of the bridge method
    todo,          \* start_all / stop_all: the device ids still to visit
    \* EthernetIPMQTTBridge (app.py)
    devices,       \* EthernetIPMQTTBridge.devices: the registered device objects
    lock,          \* EthernetIPMQTTBridge.lock: the caller holding it, or "-"
    dev_updated,   \* devices whose fields an update_device has replaced
    \* one cycle of _poll_loop; MQTTClientService (services/mqtt_client.py)
    tags,          \* PLCConnection.tags: the configured tag names
    last_error,    \* PLCConnection.last_error
    message_count, \* PLCConnection.message_count
    last_data,     \* PLCConnection.last_data: the batch stored last, with the
                   \* number of the cycle that stored it (0: the initial {})
    last_update,   \* PLCConnection.last_update: the time stamp, as the number
                   \* of the cycle that wrote it (0: None)
    data,          \* _poll_loop: the batch _read_tags returned to the thread
    pubq,          \* _publish_data: the keys of the batch still to visit
    mqtt_connected,\* MQTTClientService.connected
    published,     \* <<topic, payload>> handed to the transport client's publish
    fmt,           \* a call of publish_device_data: its arguments and its result
    mq,            \* MQTTClientService.client: the number of the transport
                   \* client last created (0: None), and where each client
                   \* created so far is with its connection
    \* history (not program state)
    batchHist,     \* per loop thread, of its latest batch: the operations the
                   \* reader answered with a value, and how many messages had
                   \* been handed to the transport client when it was read
    iter,          \* per loop thread, of the iteration it is in or has just
                   \* ended: the reader connections it opened, the sleeps
                   \* it began and the argument of time.sleep, the number of
                   \* iterations in a row that ended without a batch, and
                   \* how the database update ended
    removed,       \* sessions a remove_device has stopped (their run flag was
                   \* set) and evicted, and that has returned True
    observedAbsent,\* a concurrent status read saw an identifier under update absent
    regBefore      \* two handler threads making the same call: what the
                   \* registry held for the identifier before the two calls

bridgeVars == <<devices, lock, dev_updated>>
cycleVars == <<tags, last_error, message_count, last_data, last_update, data,
               pubq, mqtt_connected, published, fmt, batchHist, iter, mq>>
batchVars == <<todo>>
plcVars == <<connections, nobj, running, connected, thread, nthr, tpc, tself,
             bridgeVars, cycleVars, batchVars>>
callerVars == <<pc, meth, arg, conn, ret, cont, prevCall, ncalls, bid,
                was_running, statusOut, itSize, allOut>>
histVars == <<removed, observedAbsent, regBefore>>
vars == <<plcVars, callerVars, histVars>>

NoStatus ==
    [running |-> FALSE, connected |-> FALSE, session |-> None,
     last_data |-> 0, last_error |-> "None", last_update |-> 0]

\* ------------------------------------------------------------ helpers
Registered == {d \in DeviceIds : connections[d] # None}
RegisteredSessions == {connections[d] : d \in Registered}

\* A loop thread that has been started and has not left _poll_loop.
Live(t) == tpc[t] \notin {"none", "done"}
LiveLoops(s) == {t \in Threads : Live(t) /\ tself[t] = s}

\* threading.Thread.is_alive() as join() sees it.
ThreadDone(t) == tpc[t] = "done"

\* The string "A" as the list of its characters.
TagA == <<"A">>

\* No key, no batch.
NoData == [keys |-> <<>>, val |-> [x \in {} |-> x]]

\* No batch read yet.
NoBatch == [good |-> {}, sent0 |-> 0, cyc |-> 0]
NoStored == [cyc |-> 0, data |-> NoData]

\* Transport clients created in one behaviour.
MaxClients == 3
Clients == 1..MaxClients

\* MQTTClientService.__init__, line 32: self.client = None.
NoClient == [client |-> 0, st |-> [k \in Clients |-> "none"]]

\* No iteration yet.
NoIter == [opens |-> 0, sleeps |-> 0, wait |-> 0, failed |-> 0, db |-> "none"]

\* Every session is configured with the one tag "A", has the fields of
\* PLCConnection.__init__ (lines 37-41) and no cycle is under way; the
\* MQTT service is connected and has sent nothing.
NoCall ==
    [pc |-> "none", device_name |-> <<>>, tag_data |-> NoData,
     hardware_id |-> <<>>, mqtt_format |-> "json", ret |-> FALSE]
CycleIdle ==
    /\ tags = [s \in Sessions |-> <<TagA>>]
    /\ last_error = [s \in Sessions |-> "None"]
    /\ message_count = [s \in Sessions |-> 0]
    /\ last_data = [s \in Sessions |-> NoStored]
    /\ last_update = [s \in Sessions |-> 0]
    /\ data = [t \in Threads |-> NoData]
    /\ pubq = [t \in Threads |-> <<>>]
    /\ mqtt_connected = TRUE
    /\ published = <<>>
    /\ fmt = NoCall
    /\ batchHist = [t \in Threads |-> NoBatch]
    /\ iter = [t \in Threads |-> NoIter]
    /\ mq = NoClient
    /\ todo = [c \in Callers |-> {}]

\* ------------------------------------------------------------ Init
\* PLCManager.__init__: an empty registry; no session, no thread, all
\* callers idle.
Init ==
    /\ connections = [d \in DeviceIds |-> None]
    /\ nobj = 0
    /\ running = [s \in Sessions |-> FALSE]
    /\ connected = [s \in Sessions |-> FALSE]
    /\ thread = [s \in Sessions |-> None]
    /\ nthr = 0
    /\ tpc = [t \in Threads |-> "none"]
    /\ tself = [t \in Threads |-> None]
    /\ pc = [c \in Callers |-> "idle"]
    /\ meth = [c \in Callers |-> "-"]
    /\ arg = [c \in Callers |-> "-"]
    /\ conn = [c \in Callers |-> None]
    /\ ret = [c \in Callers |-> "-"]
    /\ cont = [c \in Callers |-> "idle"]
    /\ prevCall = [c \in Callers |-> <<"-", "-", "-">>]
    /\ ncalls = 0
    /\ bid = [c \in Callers |-> None]
    /\ devices = {}
    /\ lock = "-"
    /\ dev_updated = {}
    /\ was_running = [c \in Callers |-> FALSE]
    /\ statusOut = [c \in Callers |-> NoStatus]
    /\ itSize = [c \in Callers |-> 0]
    /\ allOut = [c \in Callers |-> {}]
    /\ removed = {}
    /\ observedAbsent = FALSE
    /\ regBefore = "-"
    /\ CycleIdle

\* --------------------------------------------- call / return plumbing
\* A handler thread calls method m of the manager with device_id d.
Call(c, m, entry, d) ==
    /\ pc[c] = "idle"
    /\ ncalls < MaxCalls
    /\ ncalls' = ncalls + 1
    /\ bid' = [bid EXCEPT ![c] = None]
    /\ prevCall' = [prevCall EXCEPT ![c] = <<meth[c], arg[c], ret[c]>>]
    /\ pc' = [pc EXCEPT ![c] = entry]
    /\ meth' = [meth EXCEPT ![c] = m]
    /\ arg' = [arg EXCEPT ![c] = d]
    /\ conn' = [conn EXCEPT ![c] = None]
    /\ ret' = [ret EXCEPT ![c] = "-"]
    /\ cont' = [cont EXCEPT ![c] = "idle"]
    /\ was_running' = [was_running EXCEPT ![c] = FALSE]
    /\ statusOut' = [statusOut EXCEPT ![c] = NoStatus]
    /\ itSize' = [itSize EXCEPT ![c] = 0]
    /\ allOut' = [allOut EXCEPT ![c] = {}]

\* The method returns r: the caller continues where the call was made.
Return(c, r) ==
    /\ pc' = [pc EXCEPT ![c] = cont[c]]
    /\ ret' = [ret EXCEPT ![c] = r]
    /\ cont' = [cont EXCEPT ![c] = "idle"]

\* The method raises e: every handler catches it and answers with an error,
\* whatever it was about to do next.
Raise(c, e) ==
    /\ pc' = [pc EXCEPT ![c] = "idle"]
    /\ ret' = [ret EXCEPT ![c] = e]
    /\ cont' = [cont EXCEPT ![c] = "idle"]

\* A handler calls a second method of the manager and goes on at k when it
\* returns.
SubCall(c, m, entry, k) ==
    /\ prevCall' = [prevCall EXCEPT ![c] = <<meth[c], arg[c], ret[c]>>]
    /\ pc' = [pc EXCEPT ![c] = entry]
    /\ meth' = [meth EXCEPT ![c] = m]
    /\ cont' = [cont EXCEPT ![c] = k]
    /\ ret' = [ret EXCEPT ![c] = "-"]

\* ------------------------------------------------- PLCConnection.start
\* Mutant of StartTest: start() also refuses while the thread of before the
\* last stop() is still alive.
StartTestAlive(c) ==
    /\ pc[c] = "start_test"
    /\ IF connections[arg[c]] = None
       THEN Raise(c, "KeyError") /\ UNCHANGED conn
       ELSE /\ conn' = [conn EXCEPT ![c] = connections[arg[c]]]
            /\ IF \/ running[connections[arg[c]]]
                  \/ LiveLoops(connections[arg[c]]) # {}
               THEN Return(c, "False")
               ELSE /\ pc' = [pc EXCEPT ![c] = "start_set"]
                    /\ UNCHANGED <<ret, cont>>
    /\ UNCHANGED <<plcVars, histVars, meth, arg, prevCall, ncalls, bid, was_running,
                   statusOut, itSize, allOut>>

\* Mutant of StartTest: start() without its `if self.running` test.
StartTestNone(c) ==
    /\ pc[c] = "start_test"
    /\ IF connections[arg[c]] = None
       THEN Raise(c, "KeyError") /\ UNCHANGED conn
       ELSE /\ conn' = [conn EXCEPT ![c] = connections[arg[c]]]
            /\ pc' = [pc EXCEPT ![c] = "start_set"]
            /\ UNCHANGED <<ret, cont>>
    /\ UNCHANGED <<plcVars, histVars, meth, arg, prevCall, ncalls, bid, was_running,
                   statusOut, itSize, allOut>>

\* start(), line 45: `if self.running: return False`, evaluated on the
\* object self.connections[device_id] yields (KeyError when the entry has
\* gone since start_device looked).
StartTest(c) ==
    /\ pc[c] = "start_test"
    /\ IF connections[arg[c]] = None
       THEN Raise(c, "KeyError") /\ UNCHANGED conn
       ELSE /\ conn' = [conn EXCEPT ![c] = connections[arg[c]]]
            /\ IF running[connections[arg[c]]]
               THEN Return(c, "False")
               ELSE /\ pc' = [pc EXCEPT ![c] = "start_set"]
                    /\ UNCHANGED <<ret, cont>>
    /\ UNCHANGED <<plcVars, histVars, meth, arg, prevCall, ncalls, bid, was_running,
                   statusOut, itSize, allOut>>

\* start(), lines 49-53: set the run flag, create the Thread and start it.
StartSet(c) ==
    /\ pc[c] = "start_set"
    /\ nthr < MaxCalls
    /\ LET s == conn[c]
           t == nthr + 1
       IN /\ running' = [running EXCEPT ![s] = TRUE]
          /\ nthr' = t
          /\ thread' = [thread EXCEPT ![s] = t]
          /\ tpc' = [tpc EXCEPT ![t] = "test"]
          /\ tself' = [tself EXCEPT ![t] = s]
    /\ Return(c, "True")
    /\ UNCHANGED <<connections, nobj, bridgeVars, cycleVars, batchVars, connected, histVars, meth, arg, conn,
                   prevCall, ncalls, bid, was_running, statusOut, itSize, allOut>>

\* -------------------------------------------------- PLCConnection.stop
\* stop() has returned r to PLCManager: remove_device ignores the result
\* and goes on to its del (r is kept for the history only); stop_device
\* returns it.
StopReturn(c, r) ==
    IF meth[c] = "remove_device"
    THEN /\ pc' = [pc EXCEPT ![c] = "rm_del"]
         /\ ret' = [ret EXCEPT ![c] = r]
         /\ UNCHANGED cont
    ELSE Return(c, r)

\* stop(), line 57: `if not self.running: return False`, on the object the
\* registry yields.
StopTest(c) ==
    /\ pc[c] = "stop_test"
    /\ IF connections[arg[c]] = None
       THEN Raise(c, "KeyError") /\ UNCHANGED conn
       ELSE /\ conn' = [conn EXCEPT ![c] = connections[arg[c]]]
            /\ IF ~running[connections[arg[c]]]
               THEN StopReturn(c, "False")
               ELSE /\ pc' = [pc EXCEPT ![c] = "stop_clear"]
                    /\ UNCHANGED <<ret, cont>>
    /\ UNCHANGED <<plcVars, histVars, meth, arg, prevCall, ncalls, bid, was_running,
                   statusOut, itSize, allOut>>

\* stop(), line 60: self.running = False.
StopClear(c) ==
    /\ pc[c] = "stop_clear"
    /\ running' = [running EXCEPT ![conn[c]] = FALSE]
    /\ pc' = [pc EXCEPT ![c] = "stop_join"]
    /\ UNCHANGED <<connections, nobj, bridgeVars, cycleVars, batchVars, connected, thread, nthr, tpc, tself,
                   histVars, meth, arg, conn, ret, cont, prevCall, ncalls, bid,
                   was_running, statusOut, itSize, allOut>>

\* stop(), lines 61-62: join returns because the thread has ended (or there
\* is no thread).
JoinExited(c) ==
    /\ pc[c] = "stop_join"
    /\ IF thread[conn[c]] = None THEN TRUE ELSE ThreadDone(thread[conn[c]])
    /\ pc' = [pc EXCEPT ![c] = "stop_conn"]
    /\ UNCHANGED <<plcVars, histVars, meth, arg, conn, ret, cont, prevCall,
                   ncalls, bid, was_running, statusOut, itSize, allOut>>

\* Where a loop thread can stay for longer than a join waits: in the read
\* (connector timeout 5.0, line 110), in the publish, in
\* time.sleep(self.poll_interval) (line 93).
Blocked(t) == tpc[t] \in {"read", "publish", "sleep"}

\* Mutant of JoinTimeout: join() without a timeout never gives up.
JoinNoTimeout(c) ==
    /\ pc[c] = "stop_join"
    /\ FALSE
    /\ UNCHANGED vars

\* stop(), line 62: join(timeout=2) gives up while the thread is still in
\* its sleep or in a read.
JoinTimeout(c) ==
    /\ pc[c] = "stop_join"
    /\ thread[conn[c]] # None /\ Blocked(thread[conn[c]])
    /\ pc' = [pc EXCEPT ![c] = "stop_conn"]
    /\ UNCHANGED <<plcVars, histVars, meth, arg, conn, ret, cont, prevCall,
                   ncalls, bid, was_running, statusOut, itSize, allOut>>

\* stop(), lines 64-66: self.connected = False; return True.
StopConn(c) ==
    /\ pc[c] = "stop_conn"
    /\ connected' = [connected EXCEPT ![conn[c]] = FALSE]
    /\ StopReturn(c, "True")
    /\ UNCHANGED <<connections, nobj, bridgeVars, cycleVars, batchVars, running, thread, nthr, tpc, tself,
                   histVars, meth, arg, conn, prevCall, ncalls, bid, was_running,
                   statusOut, itSize, allOut>>

\* ------------------------------------------- PLCConnection._poll_loop
\* Mutant of LoopTest: the flag is tested on entry only.
LoopTestOnEntry(t) ==
    /\ tpc[t] \in {"test", "sleep"}
    /\ tpc' = [tpc EXCEPT ![t] =
                  IF tpc[t] = "sleep" \/ running[tself[t]] THEN "read" ELSE "done"]
    /\ UNCHANGED <<connections, nobj, bridgeVars, cycleVars, batchVars, running,
                   connected, thread, nthr, tself, callerVars, histVars>>

\* Line 72, `while self.running`, first on entry and then after each
\* time.sleep(self.poll_interval) of line 93.
LoopTest(t) ==
    /\ tpc[t] \in {"test", "sleep"}
    /\ tpc' = [tpc EXCEPT ![t] = IF running[tself[t]] THEN "read" ELSE "done"]
    /\ UNCHANGED <<connections, nobj, bridgeVars, cycleVars, batchVars, running, connected, thread, nthr, tself,
                   callerVars, histVars>>

\* _read_tags, lines 110-131: the connection is made and every tag is
\* answered (some perhaps with an error entry): connected = True and data
\* is not empty.
ReadOk(t) ==
    /\ tpc[t] = "read"
    /\ connected' = [connected EXCEPT ![tself[t]] = TRUE]
    /\ tpc' = [tpc EXCEPT ![t] = "publish"]
    /\ UNCHANGED <<connections, nobj, bridgeVars, cycleVars, batchVars, running, thread, nthr, tself,
                   callerVars, histVars>>

\* _read_tags, lines 103-106 and 133-137: no tag configured, or the reader
\* raises: connected = False and data is empty, so line 76 skips to the
\* sleep.
ReadFail(t) ==
    /\ tpc[t] = "read"
    /\ connected' = [connected EXCEPT ![tself[t]] = FALSE]
    /\ tpc' = [tpc EXCEPT ![t] = "sleep"]
    /\ UNCHANGED <<connections, nobj, bridgeVars, cycleVars, batchVars, running, thread, nthr, tself,
                   callerVars, histVars>>

\* Lines 77-87: store the batch, hand it to _publish_data, stamp
\* last_update, then go to the sleep of line 93.
LoopPublish(t) ==
    /\ tpc[t] = "publish"
    /\ tpc' = [tpc EXCEPT ![t] = "sleep"]
    /\ UNCHANGED <<connections, nobj, bridgeVars, cycleVars, batchVars, running, connected, thread, nthr, tself,
                   callerVars, histVars>>

\* ---------------------------------------------------------- PLCManager
\* Mutant of AddCheck: add_device without its duplicate test.
AddCheckMissing(c) ==
    /\ pc[c] = "add_check"
    /\ pc' = [pc EXCEPT ![c] = "add_insert"]
    /\ UNCHANGED <<plcVars, histVars, meth, arg, conn, ret, cont, prevCall,
                   ncalls, bid, was_running, statusOut, itSize, allOut>>

\* Mutant of SetItem: `self.connections = {device_id: connection}`, a new
\* dict in place of an item assignment.
SetItemNewDict(reg, d, s) == [x \in DeviceIds |-> IF x = d THEN s ELSE None]

\* add_device, lines 212-214.
AddCheck(c) ==
    /\ pc[c] = "add_check"
    /\ IF connections[arg[c]] # None
       THEN Return(c, "False")
       ELSE /\ pc' = [pc EXCEPT ![c] = "add_insert"]
            /\ UNCHANGED <<ret, cont>>
    /\ UNCHANGED <<plcVars, histVars, meth, arg, conn, prevCall, ncalls, bid,
                   was_running, statusOut, itSize, allOut>>

\* The registry after `self.connections[device_id] = connection`: one item
\* assignment on the shared dict, which leaves every other key as it is at
\* that moment.
SetItem(reg, d, s) == [reg EXCEPT ![d] = s]

\* Mutant of AddInsert: the new PLCConnection is constructed with
\* running = True.
AddInsertRunning(c) ==
    /\ pc[c] = "add_insert"
    /\ nobj < MaxCalls
    /\ nobj' = nobj + 1
    /\ connections' = SetItem(connections, arg[c], nobj + 1)
    /\ running' = [running EXCEPT ![nobj + 1] = TRUE]
    /\ conn' = [conn EXCEPT ![c] = nobj + 1]
    /\ Return(c, "True")
    /\ UNCHANGED <<connected, thread, nthr, tpc, tself, bridgeVars, cycleVars, batchVars, histVars,
                   meth, arg, prevCall, ncalls, bid, was_running, statusOut, itSize,
                   allOut>>

\* add_device, lines 216-230: construct the PLCConnection (running = False,
\* connected = False, thread = None) and register it.
AddInsert(c) ==
    /\ pc[c] = "add_insert"
    /\ nobj < MaxCalls
    /\ nobj' = nobj + 1
    /\ connections' = SetItem(connections, arg[c], nobj + 1)
    /\ conn' = [conn EXCEPT ![c] = nobj + 1]
    /\ Return(c, "True")
    /\ UNCHANGED <<running, connected, thread, nthr, tpc, tself, bridgeVars, cycleVars, batchVars, histVars,
                   meth, arg, prevCall, ncalls, bid, was_running, statusOut, itSize,
                   allOut>>

\* remove_device, lines 234-238: absent -> False; otherwise fetch the
\* connection and call its stop() (StopTest .. StopConn).
RemoveCheck(c) ==
    /\ pc[c] = "rm_check"
    /\ IF connections[arg[c]] = None
       THEN Return(c, "False")
       ELSE /\ pc' = [pc EXCEPT ![c] = "stop_test"]
            /\ UNCHANGED <<ret, cont>>
    /\ UNCHANGED <<plcVars, histVars, meth, arg, conn, prevCall, ncalls, bid,
                   was_running, statusOut, itSize, allOut>>

\* remove_device, lines 239-242: del self.connections[device_id]; return
\* True.  The del raises KeyError when the key has gone meanwhile.
RemoveDel(c) ==
    /\ pc[c] = "rm_del"
    /\ IF connections[arg[c]] = None
       THEN /\ Raise(c, "KeyError")
            /\ UNCHANGED <<connections, removed>>
       ELSE /\ connections' = [connections EXCEPT ![arg[c]] = None]
            /\ removed' = IF ret[c] = "True" /\ connections[arg[c]] = conn[c]
                          THEN removed \cup {conn[c]}
                          ELSE removed
            /\ Return(c, "True")
    /\ UNCHANGED <<nobj, bridgeVars, cycleVars, batchVars, running, connected, thread, nthr, tpc, tself,
                   observedAbsent, regBefore, meth, arg, conn, prevCall, ncalls, bid,
                   was_running, statusOut, itSize, allOut>>

\* Mutant of StartDeviceCheck: start_device without its membership test.
StartDeviceNoCheck(c) ==
    /\ pc[c] = "sd_check"
    /\ pc' = [pc EXCEPT ![c] = "start_test"]
    /\ UNCHANGED <<plcVars, histVars, meth, arg, conn, ret, cont, prevCall,
                   ncalls, bid, was_running, statusOut, itSize, allOut>>

\* start_device, lines 246-249.
StartDeviceCheck(c) ==
    /\ pc[c] = "sd_check"
    /\ IF connections[arg[c]] = None
       THEN Return(c, "False")
       ELSE /\ pc' = [pc EXCEPT ![c] = "start_test"]
            /\ UNCHANGED <<ret, cont>>
    /\ UNCHANGED <<plcVars, histVars, meth, arg, conn, prevCall, ncalls, bid,
                   was_running, statusOut, itSize, allOut>>

\* stop_device, lines 253-256.
StopDeviceCheck(c) ==
    /\ pc[c] = "st_check"
    /\ IF connections[arg[c]] = None
       THEN Return(c, "False")
       ELSE /\ pc' = [pc EXCEPT ![c] = "stop_test"]
            /\ UNCHANGED <<ret, cont>>
    /\ UNCHANGED <<plcVars, histVars, meth, arg, conn, prevCall, ncalls, bid,
                   was_running, statusOut, itSize, allOut>>

\* Some other caller is inside the devices route update_device for d: its
\* own status read found d registered, its remove_device (line 177) has
\* evicted the session and returned True, and its add_device (line 178)
\* has not been called yet.
UnderUpdate(c, d) ==
    \E u \in Callers \ {c} :
        /\ arg[u] = d
        /\ statusOut[u].session # None
        /\ pc[u] = "upd_add"
        /\ ret[u] = "True"

\* get_device_status, lines 274-275.
StatusCheck(c) ==
    /\ pc[c] = "gs_check"
    /\ IF connections[arg[c]] = None
       THEN /\ Return(c, "None")
            /\ observedAbsent' =
                   (observedAbsent \/ (cont[c] = "idle" /\ UnderUpdate(c, arg[c])))
       ELSE /\ pc' = [pc EXCEPT ![c] = "gs_read"]
            /\ UNCHANGED <<ret, cont, observedAbsent>>
    /\ UNCHANGED <<plcVars, removed, regBefore, meth, arg, conn, prevCall, ncalls, bid,
                   was_running, statusOut, itSize, allOut>>

\* PLCConnection.get_status, lines 159-174, as far as the fields modelled.
get_status(s) ==
    [running |-> running[s], connected |-> connected[s], session |-> s,
     last_data |-> last_data[s].cyc, last_error |-> last_error[s],
     last_update |-> last_update[s]]

\* get_device_status, line 277.
StatusRead(c) ==
    /\ pc[c] = "gs_read"
    /\ IF connections[arg[c]] = None
       THEN Raise(c, "KeyError") /\ UNCHANGED <<conn, statusOut>>
       ELSE /\ conn' = [conn EXCEPT ![c] = connections[arg[c]]]
            /\ statusOut' = [statusOut EXCEPT ![c] = get_status(connections[arg[c]])]
            /\ Return(c, "status")
    /\ UNCHANGED <<plcVars, histVars, meth, arg, prevCall, ncalls, bid, was_running,
                   itSize, allOut>>

\* get_all_status, line 281: the iterator over self.connections.values()
\* is created; it remembers the dict's size.
AllStatusBegin(c) ==
    /\ pc[c] = "ga_begin"
    /\ itSize' = [itSize EXCEPT ![c] = Cardinality(Registered)]
    /\ pc' = [pc EXCEPT ![c] = "ga_next"]
    /\ UNCHANGED <<plcVars, histVars, meth, arg, conn, ret, cont, prevCall,
                   ncalls, bid, was_running, statusOut, allOut>>

\* get_all_status, line 281: one step of the list comprehension.  The dict
\* iterator raises RuntimeError when the dict's size has changed; otherwise
\* it yields an entry not yet visited, or ends.
AllStatusNext(c) ==
    /\ pc[c] = "ga_next"
    /\ IF Cardinality(Registered) # itSize[c]
       THEN Raise(c, "RuntimeError") /\ UNCHANGED allOut
       ELSE IF Registered \ allOut[c] = {}
            THEN Return(c, "list") /\ UNCHANGED allOut
            ELSE /\ \E d \in Registered \ allOut[c] :
                        allOut' = [allOut EXCEPT ![c] = @ \cup {d}]
                 /\ UNCHANGED <<pc, ret, cont>>
    /\ UNCHANGED <<plcVars, histVars, meth, arg, conn, prevCall, ncalls, bid,
                   was_running, statusOut, itSize>>

\* ------------------------------------- routes/devices.py update_device
\* Lines 165-169: runtime_status has come back; a running device is stopped
\* first.
UpdAfterStatus(c) ==
    /\ pc[c] = "upd_after_status"
    /\ IF ret[c] = "status" /\ statusOut[c].running
       THEN /\ was_running' = [was_running EXCEPT ![c] = TRUE]
            /\ SubCall(c, "stop_device", "st_check", "upd_db")
       ELSE /\ pc' = [pc EXCEPT ![c] = "upd_db"]
            /\ UNCHANGED <<was_running, meth, ret, cont, prevCall>>
    /\ UNCHANGED <<plcVars, histVars, arg, conn, ncalls, bid, statusOut, itSize, allOut>>

\* Lines 172, 177: DeviceService.update_device returned the device; the
\* session is removed from the manager.
UpdDbOk(c) ==
    /\ pc[c] = "upd_db"
    /\ SubCall(c, "remove_device", "rm_check", "upd_add")
    /\ UNCHANGED <<plcVars, histVars, arg, conn, ncalls, bid, was_running, statusOut,
                   itSize, allOut>>

\* Lines 173-174: DeviceService.update_device returned None: 404.
UpdDbMissing(c) ==
    /\ pc[c] = "upd_db"
    /\ Raise(c, "404")
    /\ UNCHANGED <<plcVars, histVars, meth, arg, conn, prevCall, ncalls, bid,
                   was_running, statusOut, itSize, allOut>>

\* Lines 172, 201-203: DeviceService.update_device raised: 500.
UpdDbRaises(c) ==
    /\ pc[c] = "upd_db"
    /\ Raise(c, "500")
    /\ UNCHANGED <<plcVars, histVars, meth, arg, conn, prevCall, ncalls, bid,
                   was_running, statusOut, itSize, allOut>>

\* Lines 178-188: plc_manager.add_device(..., hardware_id=, mqtt_format=,
\* mqtt_topic_prefix=).  PLCManager.add_device (plc_manager.py line 210)
\* takes none of these three keywords: the call raises TypeError before the
\* method body runs, and the handler's except answers 500.  Lines 190-199
\* are never reached.
UpdAdd(c) ==
    /\ pc[c] = "upd_add"
    /\ Raise(c, "TypeError")
    /\ UNCHANGED <<plcVars, histVars, meth, arg, conn, prevCall, ncalls, bid,
                   was_running, statusOut, itSize, allOut>>

\* --------------------------------------------------------- the calls
CallAdd(c, d) ==
    /\ Call(c, "add_device", "add_check", d)
    /\ UNCHANGED <<plcVars, histVars>>

CallRemove(c, d) ==
    /\ Call(c, "remove_device", "rm_check", d)
    /\ UNCHANGED <<plcVars, histVars>>

CallStart(c, d) ==
    /\ Call(c, "start_device", "sd_check", d)
    /\ UNCHANGED <<plcVars, histVars>>

CallStop(c, d) ==
    /\ Call(c, "stop_device", "st_check", d)
    /\ UNCHANGED <<plcVars, histVars>>

CallStatus(c, d) ==
    /\ Call(c, "get_device_status", "gs_check", d)
    /\ UNCHANGED <<plcVars, histVars>>

CallAllStatus(c) ==
    /\ Call(c, "get_all_status", "ga_begin", "-")
    /\ UNCHANGED <<plcVars, histVars>>

\* The devices route update_device, line 166: its first step is a
\* get_device_status.
CallUpdate(c, d) ==
    /\ pc[c] = "idle"
    /\ ncalls < MaxCalls
    /\ ncalls' = ncalls + 1
    /\ bid' = [bid EXCEPT ![c] = None]
    /\ prevCall' = [prevCall EXCEPT ![c] = <<meth[c], arg[c], ret[c]>>]
    /\ pc' = [pc EXCEPT ![c] = "gs_check"]
    /\ meth' = [meth EXCEPT ![c] = "get_device_status"]
    /\ arg' = [arg EXCEPT ![c] = d]
    /\ conn' = [conn EXCEPT ![c] = None]
    /\ ret' = [ret EXCEPT ![c] = "-"]
    /\ cont' = [cont EXCEPT ![c] = "upd_after_status"]
    /\ was_running' = [was_running EXCEPT ![c] = FALSE]
    /\ statusOut' = [statusOut EXCEPT ![c] = NoStatus]
    /\ itSize' = [itSize EXCEPT ![c] = 0]
    /\ allOut' = [allOut EXCEPT ![c] = {}]
    /\ UNCHANGED <<plcVars, histVars>>

\* ------------------------------------------------------ specifications
\* One step of caller c inside a method or handler.
CallerStep(c) ==
    \/ AddCheck(c) \/ AddInsert(c)
    \/ RemoveCheck(c) \/ RemoveDel(c)
    \/ StartDeviceCheck(c) \/ StartTest(c) \/ StartSet(c)
    \/ StopDeviceCheck(c) \/ StopTest(c) \/ StopClear(c)
    \/ JoinExited(c) \/ JoinTimeout(c) \/ StopConn(c)
    \/ StatusCheck(c) \/ StatusRead(c)
    \/ AllStatusBegin(c) \/ AllStatusNext(c)
    \/ UpdAfterStatus(c) \/ UpdDbOk(c) \/ UpdDbMissing(c) \/ UpdDbRaises(c)
    \/ UpdAdd(c)

\* Caller c issues a call.
CallerCall(c) ==
    \/ \E d \in DeviceIds :
          \/ CallAdd(c, d) \/ CallRemove(c, d) \/ CallStart(c, d)
          \/ CallStop(c, d) \/ CallStatus(c, d) \/ CallUpdate(c, d)
    \/ CallAllStatus(c)

\* One step of loop thread t.
LoopStep(t) == LoopTest(t) \/ ReadOk(t) \/ ReadFail(t) \/ LoopPublish(t)

Next ==
    \/ \E c \in Callers : CallerCall(c) \/ CallerStep(c)
    \/ \E t \in Threads : LoopStep(t)

Spec == Init /\ [][Next]_vars

\* The same program with its calls issued one after the other by one
\* handler thread; the loops run concurrently with it.
NextSeq ==
    \/ CallerCall("c1") \/ CallerStep("c1")
    \/ \E t \in Threads : LoopStep(t)

SeqSpec == Init /\ [][NextSeq]_vars

\* ================================================================ claims

\* C1: for any sequence of start() and stop() calls on one session, at most
\* one _poll_loop thread of that session is active at any time.
C1_OneLoopPerSession ==
    \A s \in Sessions : Cardinality(LiveLoops(s)) <= 1

\* C2: a poll loop is executing only for a session that is in the registry;
\* once remove_device has returned for a session, none of its loops is
\* still active.
C2_LoopsOnlyForRegistered ==
    /\ \A t \in Threads : Live(t) => tself[t] \in RegisteredSessions
    /\ \A s \in removed : LiveLoops(s) = {}

\* C4: when stop_device(id) has returned success, the next start_device(id)
\* returns success.
C4_RestartAfterStop ==
    \A c \in Callers :
        (/\ pc[c] = "idle"
         /\ meth[c] = "start_device"
         /\ prevCall[c] = <<"stop_device", arg[c], "True">>)
        => ret[c] = "True"

\* C4 witness: a start_device has succeeded right after a stop_device whose
\* join timed out: the loop of before the stop is still alive beside the
\* new one.
C4_Witness ==
    \E c \in Callers :
        /\ pc[c] = "idle"
        /\ meth[c] = "start_device"
        /\ prevCall[c] = <<"stop_device", arg[c], "True">>
        /\ ret[c] = "True"
        /\ Cardinality(LiveLoops(conn[c])) = 2

\* Scheduling: a handler thread inside a method goes on running, and a loop
\* thread evaluates its `while` test when its sleep is over.  Nothing is
\* assumed of a read or a publish: the reader may hang.
FairSeqSpec ==
    /\ SeqSpec
    /\ WF_vars(CallerStep("c1"))
    /\ \A t \in Threads : WF_vars(LoopTest(t))

StopPcs == {"stop_clear", "stop_join", "stop_conn"}

\* C5: stop() on a running session returns success with the run flag
\* cleared, and its caller is never blocked forever, whatever the loop does.
C5_StopReturns ==
    /\ [][\A c \in Callers :
            (pc[c] = "stop_conn" /\ pc'[c] # "stop_conn")
            => /\ ~running'[conn[c]]
               /\ meth[c] = "stop_device" => ret'[c] = "True"]_vars
    /\ \A c \in Callers : (pc[c] = "stop_clear") ~> (pc[c] \notin StopPcs)

\* C5 witness: stop_device has returned True while the session's loop is
\* still inside its read.
C5_Witness ==
    \E c \in Callers :
        /\ pc[c] = "idle"
        /\ meth[c] = "stop_device"
        /\ ret[c] = "True"
        /\ ~running[conn[c]]
        /\ \E t \in LiveLoops(conn[c]) : tpc[t] = "read"

\* Two handler threads issuing add_device, start_device and remove_device
\* for one identifier, under the program's scheduling: every handler thread
\* inside a method goes on running, and every loop thread goes on (its read
\* is bounded by the connector timeout, its sleep by poll_interval).
LifecycleStep(c) ==
    \/ AddCheck(c) \/ AddInsert(c)
    \/ RemoveCheck(c) \/ RemoveDel(c)
    \/ StartDeviceCheck(c) \/ StartTest(c) \/ StartSet(c)
    \/ StopTest(c) \/ StopClear(c)
    \/ JoinExited(c) \/ JoinTimeout(c) \/ StopConn(c)

NextLifecycle ==
    \/ \E c \in Callers :
          \/ CallAdd(c, "d1") \/ CallStart(c, "d1") \/ CallRemove(c, "d1")
          \/ LifecycleStep(c)
    \/ \E t \in Threads : LoopStep(t)

FairLifecycleSpec ==
    /\ Init /\ [][NextLifecycle]_vars
    /\ \A c \in Callers : WF_vars(LifecycleStep(c))
    /\ \A t \in Threads : WF_vars(LoopStep(t))

\* C3: once remove_device has returned for a session whose loop was running,
\* the session's loops eventually exit and none is ever active again.
C3_RemovedLoopExits ==
    \A s \in Sessions : [](s \in removed => <>[](LiveLoops(s) = {}))

\* C8: while the devices route update_device runs for a registered device,
\* no concurrent get_device_status(id) finds the identifier absent.
C8_NeverObservedAbsent == ~observedAbsent

\* ------------------------------------- add_device racing remove_device
\* The registry as c2 has left it for "d1": never added; added; added and
\* started.  c1 then calls add_device("d1") and c2 remove_device("d1"),
\* each once, at any time.
AfterAdd ==
    /\ connections = [d \in DeviceIds |-> IF d = "d1" THEN 1 ELSE None]
    /\ nobj = 1
    /\ running = [s \in Sessions |-> FALSE]
    /\ connected = [s \in Sessions |-> FALSE]
    /\ thread = [s \in Sessions |-> None]
    /\ nthr = 0
    /\ tpc = [t \in Threads |-> "none"]
    /\ tself = [t \in Threads |-> None]
    /\ pc = [c \in Callers |-> "idle"]
    /\ meth = [c \in Callers |-> IF c = "c2" THEN "add_device" ELSE "-"]
    /\ arg = [c \in Callers |-> IF c = "c2" THEN "d1" ELSE "-"]
    /\ conn = [c \in Callers |-> IF c = "c2" THEN 1 ELSE None]
    /\ ret = [c \in Callers |-> IF c = "c2" THEN "True" ELSE "-"]
    /\ cont = [c \in Callers |-> "idle"]
    /\ prevCall = [c \in Callers |-> <<"-", "-", "-">>]
    /\ ncalls = 1
    /\ bid = [c \in Callers |-> None]
    /\ devices = {}
    /\ lock = "-"
    /\ dev_updated = {}
    /\ was_running = [c \in Callers |-> FALSE]
    /\ statusOut = [c \in Callers |-> NoStatus]
    /\ itSize = [c \in Callers |-> 0]
    /\ allOut = [c \in Callers |-> {}]
    /\ removed = {}
    /\ observedAbsent = FALSE
    /\ regBefore = "-"
    /\ CycleIdle

AfterAddStart ==
    /\ connections = [d \in DeviceIds |-> IF d = "d1" THEN 1 ELSE None]
    /\ nobj = 1
    /\ running = [s \in Sessions |-> s = 1]
    /\ connected = [s \in Sessions |-> FALSE]
    /\ thread = [s \in Sessions |-> IF s = 1 THEN 1 ELSE None]
    /\ nthr = 1
    /\ tpc = [t \in Threads |-> IF t = 1 THEN "test" ELSE "none"]
    /\ tself = [t \in Threads |-> IF t = 1 THEN 1 ELSE None]
    /\ pc = [c \in Callers |-> "idle"]
    /\ meth = [c \in Callers |-> IF c = "c2" THEN "start_device" ELSE "-"]
    /\ arg = [c \in Callers |-> IF c = "c2" THEN "d1" ELSE "-"]
    /\ conn = [c \in Callers |-> IF c = "c2" THEN 1 ELSE None]
    /\ ret = [c \in Callers |-> IF c = "c2" THEN "True" ELSE "-"]
    /\ cont = [c \in Callers |-> "idle"]
    /\ prevCall = [c \in Callers |->
                     IF c = "c2" THEN <<"add_device", "d1", "True">>
                     ELSE <<"-", "-", "-">>]
    /\ ncalls = 2
    /\ bid = [c \in Callers |-> None]
    /\ devices = {}
    /\ lock = "-"
    /\ dev_updated = {}
    /\ was_running = [c \in Callers |-> FALSE]
    /\ statusOut = [c \in Callers |-> NoStatus]
    /\ itSize = [c \in Callers |-> 0]
    /\ allOut = [c \in Callers |-> {}]
    /\ removed = {}
    /\ observedAbsent = FALSE
    /\ regBefore = "-"
    /\ CycleIdle

InitAddRemove == Init \/ AfterAdd \/ AfterAddStart

NextAddRemove ==
    \/ meth["c1"] = "-" /\ CallAdd("c1", "d1")
    \/ meth["c2"] # "remove_device" /\ CallRemove("c2", "d1")
    \/ \E c \in Callers :
          \/ AddCheck(c) \/ AddInsert(c)
          \/ RemoveCheck(c) \/ RemoveDel(c)
          \/ StopTest(c) \/ StopClear(c)
          \/ JoinExited(c) \/ JoinTimeout(c) \/ StopConn(c)
    \/ \E t \in Threads : LoopStep(t)

AddRemoveSpec == InitAddRemove /\ [][NextAddRemove]_vars

\* Both racing calls have returned.
AddRemoveDone ==
    /\ pc["c1"] = "idle" /\ meth["c1"] = "add_device"
    /\ pc["c2"] = "idle" /\ meth["c2"] = "remove_device"

\* "d1" was registered when the race began (c2 had added it).
WasRegistered == prevCall["c2"][1] # "-"

\* C9: a remove_device and an add_device racing on one identifier return
\* what one of the two serial orders returns and leave the registry as that
\* order leaves it: add then remove (absent), or remove then add (present,
\* holding the new, not started session).
C9_AddRemoveSerial ==
    AddRemoveDone =>
        LET present == connections["d1"] # None
            outcome == <<ret["c1"], ret["c2"], present>>
        IN /\ IF WasRegistered
              THEN outcome \in {<<"False", "True", FALSE>>, <<"True", "True", TRUE>>}
              ELSE outcome \in {<<"True", "True", FALSE>>, <<"True", "False", TRUE>>}
           /\ present =>
                 /\ connections["d1"] = conn["c1"]
                 /\ ~running[conn["c1"]]
                 /\ thread[conn["c1"]] = None

\* C9 witness: on a registered, running device the remove came first and
\* the add, racing with it, registered a new session.
C9_Witness ==
    /\ AddRemoveDone
    /\ WasRegistered
    /\ prevCall["c2"][1] = "start_device"
    /\ ret["c1"] = "True" /\ ret["c2"] = "True"
    /\ connections["d1"] = 2

\* ------------------------------------ concurrent add_device, distinct ids
\* Each handler thread adds a device of its own and may then start it, as
\* the create_device route does (routes/devices.py lines 97-111); once every
\* add_device has returned, any of them may call get_all_status.
OwnId(c) == IF c = "c1" THEN "d1" ELSE "d2"

\* add_device is each caller's first call: it has returned once the caller
\* has called something and is not inside add_device.
AddReturned(c) ==
    /\ meth[c] # "-"
    /\ ~(meth[c] = "add_device" /\ pc[c] # "idle")

NextAdds ==
    \/ \E c \in Callers :
          \/ meth[c] = "-" /\ CallAdd(c, OwnId(c))
          \/ meth[c] = "add_device" /\ CallStart(c, OwnId(c))
          \/ (\A k \in Callers : AddReturned(k)) /\ CallAllStatus(c)
          \/ AddCheck(c) \/ AddInsert(c)
          \/ StartDeviceCheck(c) \/ StartTest(c) \/ StartSet(c)
          \/ AllStatusBegin(c) \/ AllStatusNext(c)
    \/ \E t \in Threads : LoopStep(t)

AddsSpec == Init /\ [][NextAdds]_vars

\* C10: concurrent add_device calls with distinct identifiers all return
\* True, and a get_all_status issued after they have returned holds one
\* entry for each of them.
C10_NoLostRegistration ==
    \A c \in Callers :
        /\ (meth[c] = "add_device" /\ pc[c] = "idle") => ret[c] = "True"
        /\ (meth[c] = "get_all_status" /\ pc[c] = "idle")
           => /\ ret[c] = "list"
              /\ allOut[c] = {OwnId(k) : k \in Callers}
              /\ Cardinality(allOut[c]) = Cardinality(Callers)

\* C10 witness: both adds have returned and a get_all_status issued after
\* them has returned its list.
C10_Witness ==
    \E c \in Callers :
        /\ meth[c] = "get_all_status" /\ pc[c] = "idle" /\ ret[c] = "list"
        /\ \A k \in Callers : AddReturned(k)
        /\ allOut[c] = {"d1", "d2"}

\* =================================================== app.py: the bridge
\* EthernetIPMQTTBridge keeps DeviceConnection objects, which carry the same
\* fields as a PLCConnection (running, connected, thread): the variables
\* running, connected, thread, tpc and tself hold them here, nobj counts the
\* objects (one per uuid4 device_id) and tself is the device a device_loop
\* thread was started for.  Every method takes self.lock, a threading.Lock:
\* an acquire waits until the lock is free, whoever holds it.

\* What the bridge never touches.
plcOnly == <<connections, arg, conn, statusOut, itSize, allOut, histVars,
             cycleVars, batchVars>>

\* A handler thread calls method m of the bridge for device id.
BCall(c, m, entry, id) ==
    /\ pc[c] = "idle"
    /\ ncalls < MaxCalls
    /\ ncalls' = ncalls + 1
    /\ prevCall' = [prevCall EXCEPT ![c] = <<meth[c], arg[c], ret[c]>>]
    /\ pc' = [pc EXCEPT ![c] = entry]
    /\ meth' = [meth EXCEPT ![c] = m]
    /\ bid' = [bid EXCEPT ![c] = id]
    /\ ret' = [ret EXCEPT ![c] = "-"]
    /\ cont' = [cont EXCEPT ![c] = "idle"]
    /\ was_running' = [was_running EXCEPT ![c] = FALSE]
    /\ UNCHANGED <<plcOnly, nobj, running, connected, thread, nthr, tpc, tself,
                   bridgeVars>>

BCallAdd(c) == BCall(c, "bridge.add_device", "b_add", None)
BCallRemove(c, id) == BCall(c, "bridge.remove_device", "b_rm_acquire", id)
BCallStart(c, id) == BCall(c, "bridge.start_device", "b_start", id)
BCallStop(c, id) == BCall(c, "bridge.stop_device", "b_stop_acquire", id)
BCallUpdate(c, id) == BCall(c, "bridge.update_device", "b_upd_acquire", id)

\* add_device, lines 70-82: a new DeviceConnection under a fresh uuid4,
\* registered under the lock.
BAdd(c) ==
    /\ pc[c] = "b_add"
    /\ lock = "-"
    /\ nobj < MaxCalls
    /\ nobj' = nobj + 1
    /\ devices' = devices \cup {nobj + 1}
    /\ bid' = [bid EXCEPT ![c] = nobj + 1]
    /\ Return(c, "id")
    /\ UNCHANGED <<plcOnly, running, connected, thread, nthr, tpc, tself, lock,
                   dev_updated, meth, prevCall, ncalls, was_running>>

\* start_device, lines 207-218, all of it under the lock.
BStart(c) ==
    /\ pc[c] = "b_start"
    /\ lock = "-"
    /\ IF bid[c] \notin devices \/ running[bid[c]]
       THEN /\ Return(c, "False")
            /\ UNCHANGED <<running, thread, nthr, tpc, tself>>
       ELSE /\ nthr < MaxCalls
            /\ running' = [running EXCEPT ![bid[c]] = TRUE]
            /\ nthr' = nthr + 1
            /\ thread' = [thread EXCEPT ![bid[c]] = nthr + 1]
            /\ tpc' = [tpc EXCEPT ![nthr + 1] = "get"]
            /\ tself' = [tself EXCEPT ![nthr + 1] = bid[c]]
            /\ Return(c, "True")
    /\ UNCHANGED <<plcOnly, nobj, connected, bridgeVars, meth, prevCall, ncalls,
                   bid, was_running>>

\* stop_device, line 221: `with self.lock`.
BStopAcquire(c) ==
    /\ pc[c] = "b_stop_acquire"
    /\ lock = "-"
    /\ lock' = c
    /\ pc' = [pc EXCEPT ![c] = "b_stop_body"]
    /\ UNCHANGED <<plcOnly, nobj, running, connected, thread, nthr, tpc, tself,
                   devices, dev_updated, meth, ret, cont, prevCall, ncalls, bid,
                   was_running>>

\* stop_device, lines 222-226: not registered -> False (the lock is
\* released); otherwise device.running = False.
BStopBody(c) ==
    /\ pc[c] = "b_stop_body"
    /\ IF bid[c] \notin devices
       THEN /\ lock' = "-"
            /\ Return(c, "False")
            /\ UNCHANGED running
       ELSE /\ running' = [running EXCEPT ![bid[c]] = FALSE]
            /\ pc' = [pc EXCEPT ![c] = "b_stop_join"]
            /\ UNCHANGED <<lock, ret, cont>>
    /\ UNCHANGED <<plcOnly, nobj, connected, thread, nthr, tpc, tself, devices,
                   dev_updated, meth, prevCall, ncalls, bid, was_running>>

\* stop_device, lines 227-229: the join, still under the lock, returns
\* because the thread has ended; return True releases the lock.
BStopJoinExited(c) ==
    /\ pc[c] = "b_stop_join"
    /\ IF thread[bid[c]] = None THEN TRUE ELSE ThreadDone(thread[bid[c]])
    /\ lock' = "-"
    /\ Return(c, "True")
    /\ UNCHANGED <<plcOnly, nobj, running, connected, thread, nthr, tpc, tself,
                   devices, dev_updated, meth, prevCall, ncalls, bid, was_running>>

\* stop_device, lines 227-229: join(timeout=2) gives up.
BStopJoinTimeout(c) ==
    /\ pc[c] = "b_stop_join"
    /\ thread[bid[c]] # None /\ Blocked(thread[bid[c]])
    /\ lock' = "-"
    /\ Return(c, "True")
    /\ UNCHANGED <<plcOnly, nobj, running, connected, thread, nthr, tpc, tself,
                   devices, dev_updated, meth, prevCall, ncalls, bid, was_running>>

\* remove_device, line 85: `with self.lock`.
BRemoveAcquire(c) ==
    /\ pc[c] = "b_rm_acquire"
    /\ lock = "-"
    /\ lock' = c
    /\ pc' = [pc EXCEPT ![c] = "b_rm_body"]
    /\ UNCHANGED <<plcOnly, nobj, running, connected, thread, nthr, tpc, tself,
                   devices, dev_updated, meth, ret, cont, prevCall, ncalls, bid,
                   was_running>>

\* remove_device, lines 86-92, holding the lock.  Not registered: False.
\* Registered and running: self.stop_device(device_id) is called (line 89),
\* which begins with its own `with self.lock`; lines 90-91 come after its
\* return.  Registered and not running: del, return True.
BRemoveBody(c) ==
    /\ pc[c] = "b_rm_body"
    /\ IF bid[c] \notin devices
       THEN /\ lock' = "-"
            /\ Return(c, "False")
            /\ UNCHANGED devices
       ELSE IF running[bid[c]]
            THEN /\ pc' = [pc EXCEPT ![c] = "b_stop_acquire"]
                 /\ cont' = [cont EXCEPT ![c] = "b_rm_del"]
                 /\ UNCHANGED <<lock, ret, devices>>
            ELSE /\ devices' = devices \ {bid[c]}
                 /\ lock' = "-"
                 /\ Return(c, "True")
    /\ UNCHANGED <<plcOnly, nobj, running, connected, thread, nthr, tpc, tself,
                   dev_updated, meth, prevCall, ncalls, bid, was_running>>

\* update_device, line 96: `with self.lock`.
BUpdateAcquire(c) ==
    /\ pc[c] = "b_upd_acquire"
    /\ lock = "-"
    /\ lock' = c
    /\ pc' = [pc EXCEPT ![c] = "b_upd_body"]
    /\ UNCHANGED <<plcOnly, nobj, running, connected, thread, nthr, tpc, tself,
                   devices, dev_updated, meth, ret, cont, prevCall, ncalls, bid,
                   was_running>>

\* update_device, lines 97-122, holding the lock.  Not registered: False.
\* Running: self.stop_device(device_id) is called (line 104), which begins
\* with its own `with self.lock`; the field assignments and the restart
\* come after its return.  Not running: the fields are assigned, True.
BUpdateBody(c) ==
    /\ pc[c] = "b_upd_body"
    /\ IF bid[c] \notin devices
       THEN /\ lock' = "-"
            /\ Return(c, "False")
            /\ UNCHANGED <<dev_updated, was_running>>
       ELSE IF running[bid[c]]
            THEN /\ was_running' = [was_running EXCEPT ![c] = TRUE]
                 /\ pc' = [pc EXCEPT ![c] = "b_stop_acquire"]
                 /\ cont' = [cont EXCEPT ![c] = "b_upd_mutate"]
                 /\ UNCHANGED <<lock, ret, dev_updated>>
            ELSE /\ dev_updated' = dev_updated \cup {bid[c]}
                 /\ lock' = "-"
                 /\ Return(c, "True")
                 /\ UNCHANGED was_running
    /\ UNCHANGED <<plcOnly, nobj, running, connected, thread, nthr, tpc, tself,
                   devices, meth, prevCall, ncalls, bid>>

\* device_loop, lines 192-194: device = self.devices.get(device_id).
BLoopGet(t) ==
    /\ tpc[t] = "get"
    /\ tpc' = [tpc EXCEPT ![t] = IF tself[t] \in devices THEN "test" ELSE "done"]
    /\ UNCHANGED <<connections, nobj, bridgeVars, cycleVars, batchVars, running, connected, thread,
                   nthr, tself, callerVars, histVars>>

\* device_loop, line 196, `while device.running`, on entry and after each
\* time.sleep(device.poll_interval) of line 204.
BLoopTest(t) ==
    /\ tpc[t] \in {"test", "sleep"}
    /\ tpc' = [tpc EXCEPT ![t] = IF running[tself[t]] THEN "read" ELSE "done"]
    /\ UNCHANGED <<connections, nobj, bridgeVars, cycleVars, batchVars, running, connected, thread,
                   nthr, tself, callerVars, histVars>>

\* read_ethernetip_tags, lines 137-158: connected = True, data not empty.
BReadOk(t) ==
    /\ tpc[t] = "read"
    /\ connected' = [connected EXCEPT ![tself[t]] = TRUE]
    /\ tpc' = [tpc EXCEPT ![t] = "publish"]
    /\ UNCHANGED <<connections, nobj, bridgeVars, cycleVars, batchVars, running, thread, nthr, tself,
                   callerVars, histVars>>

\* read_ethernetip_tags, lines 129-133 and 160-164: no tag, or the reader
\* raises: connected = False, no data.
BReadFail(t) ==
    /\ tpc[t] = "read"
    /\ connected' = [connected EXCEPT ![tself[t]] = FALSE]
    /\ tpc' = [tpc EXCEPT ![t] = "sleep"]
    /\ UNCHANGED <<connections, nobj, bridgeVars, cycleVars, batchVars, running, thread, nthr, tself,
                   callerVars, histVars>>

\* device_loop, lines 199-202: store, publish_to_mqtt, stamp.
BLoopPublish(t) ==
    /\ tpc[t] = "publish"
    /\ tpc' = [tpc EXCEPT ![t] = "sleep"]
    /\ UNCHANGED <<connections, nobj, bridgeVars, cycleVars, batchVars, running, connected, thread,
                   nthr, tself, callerVars, histVars>>

BridgeStep(c) ==
    \/ BAdd(c) \/ BStart(c)
    \/ BStopAcquire(c) \/ BStopBody(c) \/ BStopJoinExited(c) \/ BStopJoinTimeout(c)
    \/ BRemoveAcquire(c) \/ BRemoveBody(c)
    \/ BUpdateAcquire(c) \/ BUpdateBody(c)

BridgeCall(c) ==
    \/ BCallAdd(c)
    \/ \E id \in 1..nobj :
          \/ BCallRemove(c, id) \/ BCallStart(c, id)
          \/ BCallStop(c, id) \/ BCallUpdate(c, id)

BLoopStep(t) ==
    BLoopGet(t) \/ BLoopTest(t) \/ BReadOk(t) \/ BReadFail(t) \/ BLoopPublish(t)

NextBridge ==
    \/ \E c \in Callers : BridgeCall(c) \/ BridgeStep(c)
    \/ \E t \in Threads : BLoopStep(t)

\* The bridge under the program's scheduling: a handler thread that can go
\* on does, and so does every loop thread.
FairBridgeSpec ==
    /\ Init /\ [][NextBridge]_vars
    /\ \A c \in Callers : WF_vars(BridgeStep(c))
    /\ \A t \in Threads : WF_vars(BLoopStep(t))

\* C6: the bridge's remove_device on a registered device whose run flag is
\* set terminates, returns success and leaves the identifier absent.
C6_BridgeRemoveReturns ==
    \A c \in Callers :
        (pc[c] = "b_stop_acquire" /\ cont[c] = "b_rm_del")
        ~> (/\ pc[c] = "idle"
            /\ meth[c] = "bridge.remove_device"
            /\ ret[c] = "True"
            /\ bid[c] \notin devices)

\* C7: the bridge's update_device on a registered running device terminates
\* with success, the new field values applied and the device running again.
C7_BridgeUpdateReturns ==
    \A c \in Callers :
        (pc[c] = "b_stop_acquire" /\ cont[c] = "b_upd_mutate")
        ~> (/\ pc[c] = "idle"
            /\ meth[c] = "bridge.update_device"
            /\ ret[c] = "True"
            /\ bid[c] \in dev_updated
            /\ running[bid[c]])

\* ------------------------------------------ the structural error paths
\* The lifecycle calls of two handler threads on one identifier, with no
\* assumption on the scheduling.
LifecycleSpec == Init /\ [][NextLifecycle]_vars

\* The fields of the sessions and the registry.
sessionVars == <<connections, nobj, running, connected, thread, nthr, tpc, tself>>

\* C11: start() on a session whose run flag is set returns False, leaves
\* the flag set and launches no further loop thread.
C11_StartRunningFails ==
    [][\A c \in Callers :
          (/\ pc[c] = "start_test" /\ pc'[c] # "start_test"
           /\ connections[arg[c]] # None
           /\ running[connections[arg[c]]])
          => /\ pc'[c] = "idle" /\ ret'[c] = "False"
             /\ running'[connections[arg[c]]]
             /\ UNCHANGED sessionVars]_vars

\* C11 witness: a start_device has been refused on a running session, whose
\* one loop is alive.
C11_Witness ==
    \E c \in Callers :
        /\ meth[c] = "start_device" /\ pc[c] = "idle" /\ ret[c] = "False"
        /\ conn[c] # None
        /\ running[conn[c]]
        /\ Cardinality(LiveLoops(conn[c])) = 1

\* C12: add_device with an identifier already in the registry returns
\* False and leaves the registered session as it is: the same object, its
\* run flag, its runtime state, one entry for the identifier.
C12_DuplicateAddFails ==
    [][\A c \in Callers :
          (/\ pc[c] = "add_check" /\ pc'[c] # "add_check"
           /\ connections[arg[c]] # None)
          => /\ pc'[c] = "idle" /\ ret'[c] = "False"
             /\ connections'[arg[c]] = connections[arg[c]]
             /\ UNCHANGED sessionVars]_vars

\* C12 witness: an add_device has been refused on an identifier whose
\* session was running, and the session is still registered and running.
C12_Witness ==
    \E c \in Callers :
        /\ meth[c] = "add_device" /\ pc[c] = "idle" /\ ret[c] = "False"
        /\ connections[arg[c]] # None
        /\ running[connections[arg[c]]]
        /\ LiveLoops(connections[arg[c]]) # {}

\* The not-found outcome of a method entered at the given position.
NotFound(entry) == IF entry = "gs_check" THEN "None" ELSE "False"

\* C13: start_device, stop_device, remove_device and get_device_status on
\* an identifier that is not in the registry return False (None for the
\* status) and leave the registry and every session unchanged.
C13_NotFoundNoEffect ==
    [][\A c \in Callers :
          (/\ pc[c] \in {"sd_check", "st_check", "rm_check", "gs_check"}
           /\ pc'[c] # pc[c]
           /\ connections[arg[c]] = None)
          => /\ pc'[c] = cont[c]
             /\ ret'[c] = NotFound(pc[c])
             /\ UNCHANGED sessionVars]_vars

\* C13 witness: one of the four methods has returned for an identifier
\* that is not registered while another device is registered and running.
C13_Witness ==
    /\ pc["c1"] = "idle" /\ ret["c1"] \in {"False", "None"}
    /\ meth["c1"] \in {"start_device", "stop_device", "remove_device",
                       "get_device_status"}
    /\ connections[arg["c1"]] = None
    /\ \E d \in DeviceIds : connections[d] # None /\ running[connections[d]]

\* C14: a session add_device has registered is inert until a start() is
\* made on it: its run flag and its connected flag are false, as its status
\* shows them, and no loop thread exists for it.
C14_AddedInert ==
    /\ \A s \in RegisteredSessions :
          thread[s] = None
          => /\ ~running[s]
             /\ ~connected[s]
             /\ get_status(s).running = FALSE
             /\ get_status(s).connected = FALSE
             /\ \A t \in Threads : tself[t] # s
    /\ \A c \in Callers :
          (/\ meth[c] = "get_device_status" /\ pc[c] = "idle" /\ ret[c] = "status"
           /\ thread[statusOut[c].session] = None)
          => ~statusOut[c].running /\ ~statusOut[c].connected

\* C14 witness: the status of a session that was added and never started
\* has been read while another session runs its loop.
C14_Witness ==
    \E c \in Callers :
        /\ meth[c] = "get_device_status" /\ pc[c] = "idle" /\ ret[c] = "status"
        /\ statusOut[c].session \in RegisteredSessions
        /\ thread[statusOut[c].session] = None
        /\ ~statusOut[c].running /\ ~statusOut[c].connected
        /\ \E s \in RegisteredSessions : LiveLoops(s) # {}

\* ============================================ one cycle of _poll_loop
\* Tag names are strings; a string is the list of its characters, so that
\* str.strip() and str.split('=') are computed on it.

\* Longest tag list a device is configured with.
MaxTags == 2
MaxCycles == 2

\* The tag names a device is configured with: "", " ", "A", "B", " A" and
\* "A=".
TagStrings == {<<>>, <<" ">>, <<"A">>, <<"B">>, <<" ", "A">>, <<"A", "=">>}
TagLists == UNION {[1..n -> TagStrings] : n \in 0..MaxTags}

Range(f) == {f[i] : i \in DOMAIN f}

\* str.strip(): the string without its leading and trailing blanks.
RECURSIVE lstrip(_)
lstrip(w) == IF w # <<>> /\ Head(w) = " " THEN lstrip(Tail(w)) ELSE w

RECURSIVE rstrip(_)
rstrip(w) ==
    IF w # <<>> /\ w[Len(w)] = " " THEN rstrip(SubSeq(w, 1, Len(w) - 1)) ELSE w

strip(w) == rstrip(lstrip(w))

\* w.split('=')[0]: the string up to its first '='.
RECURSIVE split0(_)
split0(w) ==
    IF w = <<>> \/ Head(w) = "=" THEN <<>> ELSE <<Head(w)>> \o split0(Tail(w))

\* _read_tags, line 101: [tag.strip() for tag in self.tags if tag.strip()].
cleaned_tags(tl) ==
    SelectSeq([i \in 1..Len(tl) |-> strip(tl[i])], LAMBDA w : w # <<>>)

\* ethernetip_simulator.parse_operations: one (descr, op) per non-blank
\* tag, descr being the stripped tag.
parse_operations(tl) == cleaned_tags(tl)

\* results[k] = e on a dict kept as its keys in insertion order and its
\* mapping: a new key goes last, a present key keeps its place.
DictSet(d, k, e) ==
    [keys |-> IF k \in Range(d.keys) THEN d.keys ELSE Append(d.keys, k),
     val |-> [x \in Range(d.keys) \cup {k} |-> IF x = k THEN e ELSE d.val[x]]]

\* The entry _read_tags stores for an operation, lines 118-126: the read
\* of descr succeeded (the value is named after the operation it came from)
\* or it failed.
ReadEntry(descr, ok) ==
    IF ok THEN [error |-> FALSE, value |-> descr]
          ELSE [error |-> TRUE, value |-> <<>>]

\* _read_tags, lines 113-126: the loop over connection.synchronous, the
\* reader answering the operations in `good` with status true.
RECURSIVE ReadResults(_, _, _)
ReadResults(ops, good, acc) ==
    IF ops = <<>> THEN acc
    ELSE ReadResults(Tail(ops), good,
                     DictSet(acc, strip(split0(Head(ops))),
                             ReadEntry(Head(ops), Head(ops) \in good)))

\* ------------------------------------------------- MQTTClientService
\* The strings the service writes itself.
HWID == <<"H", "W", "I", "D">>
Timestamp == <<"T", "i", "m", "e", "s", "t", "a", "m", "p">>
DataSuffix == <<"d", "a", "t", "a">>
Comma == <<",">>

\* datetime.utcnow().isoformat(), and Python's None where a string may
\* stand: neither is a list of characters.
IsoNow == <<"utcnow">>
PyNone == <<"None">>

\* `x or y`.
Or(x, y) == IF x \in {PyNone, <<>>} THEN y ELSE x

\* What the transport client's publish may answer (lines 142-153): rc is
\* MQTT_ERR_SUCCESS, rc is another code, or the call raises.
TransportResults == {"success", "rc", "raise"}

publishQueued(topic, payload, rc) ==
    [ret |-> mqtt_connected /\ rc = "success",
     sent |-> <<[topic |-> topic, payload |-> payload]>>]

\* publish, lines 134-153: False at once when not connected; otherwise the
\* payload goes to the transport client and its answer decides.
publish(topic, payload, rc) ==
    IF ~mqtt_connected
    THEN [ret |-> FALSE, sent |-> <<>>]
    ELSE [ret |-> (rc = "success"),
          sent |-> <<[topic |-> topic, payload |-> payload]>>]

\* The payload dict of _publish_device_data_json, lines 204-214: HWID
\* first, then one item per tag without an error, Timestamp last.
RECURSIVE MergeTags(_, _, _)
MergeTags(p, keys, tag_data) ==
    IF keys = <<>> THEN p
    ELSE MergeTags(IF tag_data.val[Head(keys)].error
                   THEN p
                   ELSE DictSet(p, Head(keys), tag_data.val[Head(keys)].value),
                   Tail(keys), tag_data)

JsonPayload(device_name, tag_data, hardware_id) ==
    DictSet(MergeTags(DictSet(NoData, HWID, Or(hardware_id, device_name)),
                      tag_data.keys, tag_data),
            Timestamp, IsoNow)

\* _publish_device_data_json, lines 200-217.
publish_device_data_json(device_name, tag_data, topic_prefix, hardware_id, rc) ==
    publish(topic_prefix \o DataSuffix,
            JsonPayload(device_name, tag_data, hardware_id), rc)

\* ','.join(tag_values) over the tags without an error, lines 242-244.
RECURSIVE JoinValues(_, _)
JoinValues(keys, tag_data) ==
    LET rest == SelectSeq(keys, LAMBDA k : ~tag_data.val[k].error)
    IN IF rest = <<>> THEN <<>>
       ELSE IF Len(rest) = 1 THEN tag_data.val[rest[1]].value
       ELSE tag_data.val[rest[1]].value \o Comma \o JoinValues(Tail(rest), tag_data)

\* _publish_device_data_string, lines 235-250.
publish_device_data_string(device_name, tag_data, topic_prefix, hardware_id, rc) ==
    publish(topic_prefix \o DataSuffix,
            Or(hardware_id, device_name) \o Comma
                \o JoinValues(tag_data.keys, tag_data) \o Comma \o IsoNow,
            rc)

\* The signature of publish_device_data, lines 155-156: its parameters and
\* those without a default.
PublishParams ==
    {"device_id", "device_name", "tag_data", "topic_prefix", "hardware_id",
     "mqtt_format"}
PublishRequired == {"device_id", "device_name", "tag_data", "topic_prefix"}

\* A call with the keyword arguments kw binds to that signature.
Binds(kw) == DOMAIN kw \subseteq PublishParams /\ PublishRequired \subseteq DOMAIN kw

\* publish_device_data called with the keyword arguments kw, lines 155-182:
\* whether the call raised, what it returned and what it handed to the
\* transport client.  A call that does not bind raises TypeError before the
\* body is entered; inside the body every exception becomes False.
publish_device_data(kw, rc) ==
    IF ~Binds(kw)
    THEN [raised |-> TRUE, ret |-> FALSE, sent |-> <<>>]
    ELSE LET hardware_id ==
                 IF "hardware_id" \in DOMAIN kw THEN kw.hardware_id ELSE PyNone
             mqtt_format ==
                 IF "mqtt_format" \in DOMAIN kw THEN kw.mqtt_format ELSE "json"
             r == IF mqtt_format = "string"
                  THEN publish_device_data_string(kw.device_name, kw.tag_data,
                                                  kw.topic_prefix, hardware_id, rc)
                  ELSE publish_device_data_json(kw.device_name, kw.tag_data,
                                                kw.topic_prefix, hardware_id, rc)
         IN [raised |-> FALSE, ret |-> r.ret, sent |-> r.sent]

\* ------------------------------------ _poll_loop, one cycle in detail
\* The lifecycle specifications follow a loop thread through its positions
\* only (ReadOk, ReadFail, LoopPublish).  Here the same cycle is followed
\* with its data: LoopTest, then one of the three ends of _read_tags, then
\* _publish_data item by item.

\* PLCConnection.name of session s, and the topic prefix of line 152.
NameOf(s) == <<"n">>
TopicPrefixOf(s) == <<"e", "/">> \o NameOf(s) \o <<"/">>

\* PLCConnection.poll_interval, the argument of time.sleep at line 93: the
\* value the devices are created with when the request names none.
PollInterval == 5

\* The count of iterations in a row without a batch is followed up to here.
MaxFails == 2

\* Lines 82-87: no flask_app and no call; update_tag_values returns; it (or
\* app_context) raises.
DbOutcomes == {"none", "ok", "raised"}

\* The iteration of thread t as its read step leaves it: `opens` calls of
\* client.connector, ended at once by the sleep (no batch) or going on to
\* the publish.
IterRead(t, opens, batch) ==
    [opens |-> opens,
     sleeps |-> IF batch THEN 0 ELSE 1,
     wait |-> IF batch THEN 0 ELSE PollInterval,
     failed |-> IF batch THEN 0
                ELSE IF iter[t].failed < MaxFails THEN iter[t].failed + 1
                ELSE iter[t].failed,
     db |-> "none"]

cycleFrame == <<connections, nobj, bridgeVars, running, thread, nthr, tself,
                callerVars, histVars, tags, mqtt_connected, fmt, mq, batchVars>>
batchFrame == <<cycleFrame, batchHist>>
storedFrame == <<last_data, last_update>>

\* Mutant of ReadNoTags: the connector is tried although no tag is left.
ReadNoTagsConnects(t) ==
    /\ tpc[t] = "read"
    /\ cleaned_tags(tags[tself[t]]) = <<>>
    /\ connected' = [connected EXCEPT ![tself[t]] = FALSE]
    /\ last_error' = [last_error EXCEPT ![tself[t]] = "Read error"]
    /\ data' = [data EXCEPT ![t] = NoData]
    /\ iter' = [iter EXCEPT ![t] = IterRead(t, 1, FALSE)]
    /\ tpc' = [tpc EXCEPT ![t] = "sleep"]
    /\ UNCHANGED <<batchFrame, storedFrame, message_count, pubq, published>>

\* _read_tags, lines 101-106: no tag is left after the strip.
ReadNoTags(t) ==
    /\ tpc[t] = "read"
    /\ cleaned_tags(tags[tself[t]]) = <<>>
    /\ connected' = [connected EXCEPT ![tself[t]] = FALSE]
    /\ last_error' = [last_error EXCEPT ![tself[t]] = "No tags configured"]
    /\ data' = [data EXCEPT ![t] = NoData]
    /\ iter' = [iter EXCEPT ![t] = IterRead(t, 0, FALSE)]
    /\ tpc' = [tpc EXCEPT ![t] = "sleep"]
    /\ UNCHANGED <<batchFrame, storedFrame, message_count, pubq, published>>

\* Mutant of ReadRaises: after a failed read the loop waits longer, one
\* more interval for each failure in a row.
ReadRaisesBackoff(t) ==
    /\ tpc[t] = "read"
    /\ cleaned_tags(tags[tself[t]]) # <<>>
    /\ connected' = [connected EXCEPT ![tself[t]] = FALSE]
    /\ last_error' = [last_error EXCEPT ![tself[t]] = "Read error"]
    /\ data' = [data EXCEPT ![t] = NoData]
    /\ iter' = [iter EXCEPT ![t] =
                   [IterRead(t, 1, FALSE) EXCEPT
                       !.wait = PollInterval * IterRead(t, 1, FALSE).failed]]
    /\ tpc' = [tpc EXCEPT ![t] = "sleep"]
    /\ UNCHANGED <<batchFrame, storedFrame, message_count, pubq, published>>

\* Mutant of ReadRaises: a failed read also drops the stored batch.
ReadRaisesClears(t) ==
    /\ tpc[t] = "read"
    /\ cleaned_tags(tags[tself[t]]) # <<>>
    /\ connected' = [connected EXCEPT ![tself[t]] = FALSE]
    /\ last_error' = [last_error EXCEPT ![tself[t]] = "Read error"]
    /\ data' = [data EXCEPT ![t] = NoData]
    /\ iter' = [iter EXCEPT ![t] = IterRead(t, 1, FALSE)]
    /\ last_data' = [last_data EXCEPT ![tself[t]] = NoStored]
    /\ tpc' = [tpc EXCEPT ![t] = "sleep"]
    /\ UNCHANGED <<batchFrame, last_update, message_count, pubq, published>>

\* _read_tags, lines 110-116 and 133-137: the connector, or a read, raises.
ReadRaises(t) ==
    /\ tpc[t] = "read"
    /\ cleaned_tags(tags[tself[t]]) # <<>>
    /\ connected' = [connected EXCEPT ![tself[t]] = FALSE]
    /\ last_error' = [last_error EXCEPT ![tself[t]] = "Read error"]
    /\ data' = [data EXCEPT ![t] = NoData]
    /\ iter' = [iter EXCEPT ![t] = IterRead(t, 1, FALSE)]
    /\ tpc' = [tpc EXCEPT ![t] = "sleep"]
    /\ UNCHANGED <<batchFrame, storedFrame, message_count, pubq, published>>

\* _read_tags, lines 110-131, and _poll_loop, lines 76-78: the connection
\* is made and every operation answered, those in `good` with a value.
\* The batch (history: with the number of messages sent so far) is stored
\* in last_data and goes to _publish_data; it is never empty, every
\* operation leaving an entry.
ReadBatch(t) ==
    /\ tpc[t] = "read"
    /\ last_data[tself[t]].cyc < MaxCycles
    /\ LET ops == parse_operations(cleaned_tags(tags[tself[t]]))
       IN /\ ops # <<>>
          /\ \E good \in SUBSET Range(ops) :
                LET results == ReadResults(ops, good, NoData)
                IN /\ data' = [data EXCEPT ![t] = results]
                   /\ batchHist' = [batchHist EXCEPT ![t] =
                                       [good |-> good, sent0 |-> Len(published),
                                        cyc |-> last_data[tself[t]].cyc + 1]]
                   /\ last_data' = [last_data EXCEPT ![tself[t]] =
                                       [cyc |-> @.cyc + 1, data |-> results]]
                   /\ pubq' = [pubq EXCEPT ![t] = results.keys]
                   /\ iter' = [iter EXCEPT ![t] =
                                  IterRead(t, 1, results.keys # <<>>)]
                   /\ tpc' = [tpc EXCEPT ![t] =
                                 IF results.keys # <<>> THEN "publish" ELSE "sleep"]
    /\ connected' = [connected EXCEPT ![tself[t]] = TRUE]
    /\ last_error' = [last_error EXCEPT ![tself[t]] = "None"]
    /\ UNCHANGED <<cycleFrame, message_count, published, last_update>>

\* The keyword arguments of the call of lines 146-153 for the item k of
\* the batch of thread t.
PublishKw(t, k) ==
    [device_id |-> tself[t],
     device_name |-> NameOf(tself[t]),
     tag_name |-> k,
     value |-> data[t].val[k].value,
     data_type |-> "type",
     topic_prefix |-> TopicPrefixOf(tself[t])]

\* Mutant of PublishTag: message_count is counted before the call is made.
PublishTagCountFirst(t) ==
    /\ tpc[t] = "publish"
    /\ pubq[t] # <<>>
    /\ pubq' = [pubq EXCEPT ![t] = Tail(pubq[t])]
    /\ IF data[t].val[Head(pubq[t])].error
       THEN UNCHANGED <<message_count, published>>
       ELSE \E rc \in TransportResults :
               LET r == publish_device_data(PublishKw(t, Head(pubq[t])), rc)
               IN /\ published' = published \o r.sent
                  /\ message_count' = [message_count EXCEPT ![tself[t]] = @ + 1]
    /\ UNCHANGED <<batchFrame, storedFrame, connected, last_error, data, tpc,
                   iter>>

\* _publish_data, lines 141-157, one turn of its for loop: an item with an
\* error is skipped; for another publish_device_data is called, and
\* message_count is counted when the call has returned (whatever it
\* returned); when it raised, the exception is logged.
PublishTag(t) ==
    /\ tpc[t] = "publish"
    /\ pubq[t] # <<>>
    /\ pubq' = [pubq EXCEPT ![t] = Tail(pubq[t])]
    /\ IF data[t].val[Head(pubq[t])].error
       THEN UNCHANGED <<message_count, published>>
       ELSE \E rc \in TransportResults :
               LET r == publish_device_data(PublishKw(t, Head(pubq[t])), rc)
               IN /\ published' = published \o r.sent
                  /\ message_count' =
                         IF r.raised THEN message_count
                         ELSE [message_count EXCEPT ![tself[t]] = @ + 1]
    /\ UNCHANGED <<batchFrame, storedFrame, connected, last_error, data, tpc,
                   iter>>

\* Mutant of PublishEnd: an exception of the database update is not caught
\* at line 86 and reaches the handler of lines 89-91.
PublishEndDbEscapes(t) ==
    /\ tpc[t] = "publish"
    /\ pubq[t] = <<>>
    /\ last_update' = [last_update EXCEPT ![tself[t]] = batchHist[t].cyc]
    /\ \E db \in DbOutcomes :
          /\ iter' = [iter EXCEPT ![t].db = db, ![t].sleeps = @ + 1,
                                  ![t].wait = PollInterval]
          /\ last_error' = IF db = "raised"
                           THEN [last_error EXCEPT ![tself[t]] = "db error"]
                           ELSE last_error
    /\ tpc' = [tpc EXCEPT ![t] = "sleep"]
    /\ UNCHANGED <<batchFrame, connected, message_count, data, pubq,
                   published, last_data>>

\* Mutant of PublishEnd: last_update is stamped only when a message of
\* the batch went out.
PublishEndOnSuccess(t) ==
    /\ tpc[t] = "publish"
    /\ pubq[t] = <<>>
    /\ last_update' = IF Len(published) > batchHist[t].sent0
                      THEN [last_update EXCEPT ![tself[t]] = batchHist[t].cyc]
                      ELSE last_update
    /\ \E db \in DbOutcomes :
          iter' = [iter EXCEPT ![t].db = db, ![t].sleeps = @ + 1,
                               ![t].wait = PollInterval]
    /\ tpc' = [tpc EXCEPT ![t] = "sleep"]
    /\ UNCHANGED <<batchFrame, connected, last_error, message_count, data, pubq,
                   published, last_data>>

\* _publish_data has visited every item; _poll_loop, lines 79-93: the
\* stamp, the database update (an exception of it is caught at line 86 and
\* logged), then the sleep.
PublishEnd(t) ==
    /\ tpc[t] = "publish"
    /\ pubq[t] = <<>>
    /\ last_update' = [last_update EXCEPT ![tself[t]] = batchHist[t].cyc]
    /\ \E db \in DbOutcomes :
          iter' = [iter EXCEPT ![t].db = db, ![t].sleeps = @ + 1,
                               ![t].wait = PollInterval]
    /\ tpc' = [tpc EXCEPT ![t] = "sleep"]
    /\ UNCHANGED <<batchFrame, connected, last_error, message_count, data, pubq,
                   published, last_data>>

\* A session registered under "d1" and started, whatever its tag list, its
\* loop about to make its first test; the MQTT service connected or not.
InitCycle ==
    /\ connections = [d \in DeviceIds |-> IF d = "d1" THEN 1 ELSE None]
    /\ nobj = 1
    /\ running = [s \in Sessions |-> s = 1]
    /\ connected = [s \in Sessions |-> FALSE]
    /\ thread = [s \in Sessions |-> IF s = 1 THEN 1 ELSE None]
    /\ nthr = 1
    /\ tpc = [t \in Threads |-> IF t = 1 THEN "test" ELSE "none"]
    /\ tself = [t \in Threads |-> IF t = 1 THEN 1 ELSE None]
    /\ pc = [c \in Callers |-> "idle"]
    /\ meth = [c \in Callers |-> IF c = "c1" THEN "start_device" ELSE "-"]
    /\ arg = [c \in Callers |-> IF c = "c1" THEN "d1" ELSE "-"]
    /\ conn = [c \in Callers |-> IF c = "c1" THEN 1 ELSE None]
    /\ ret = [c \in Callers |-> IF c = "c1" THEN "True" ELSE "-"]
    /\ cont = [c \in Callers |-> "idle"]
    /\ prevCall = [c \in Callers |->
                     IF c = "c1" THEN <<"add_device", "d1", "True">>
                     ELSE <<"-", "-", "-">>]
    /\ ncalls = 2
    /\ bid = [c \in Callers |-> None]
    /\ devices = {}
    /\ lock = "-"
    /\ dev_updated = {}
    /\ was_running = [c \in Callers |-> FALSE]
    /\ statusOut = [c \in Callers |-> NoStatus]
    /\ itSize = [c \in Callers |-> 0]
    /\ allOut = [c \in Callers |-> {}]
    /\ removed = {}
    /\ observedAbsent = FALSE
    /\ regBefore = "-"
    /\ \E tl \in TagLists :
          tags = [s \in Sessions |-> IF s = 1 THEN tl ELSE <<TagA>>]
    /\ last_error = [s \in Sessions |-> "None"]
    /\ message_count = [s \in Sessions |-> 0]
    /\ last_data = [s \in Sessions |-> NoStored]
    /\ last_update = [s \in Sessions |-> 0]
    /\ data = [t \in Threads |-> NoData]
    /\ pubq = [t \in Threads |-> <<>>]
    /\ mqtt_connected \in BOOLEAN
    /\ published = <<>>
    /\ fmt = NoCall
    /\ batchHist = [t \in Threads |-> NoBatch]
    /\ iter = [t \in Threads |-> NoIter]
    /\ mq = NoClient
    /\ todo = [c \in Callers |-> {}]

CycleStep(t) ==
    \/ LoopTest(t)
    \/ ReadNoTags(t) \/ ReadRaises(t) \/ ReadBatch(t)
    \/ PublishTag(t) \/ PublishEnd(t)

\* The handler thread may stop the device at any time.
NextCycle ==
    \/ CallStop("c1", "d1")
    \/ StopDeviceCheck("c1") \/ StopTest("c1") \/ StopClear("c1")
    \/ JoinExited("c1") \/ JoinTimeout("c1") \/ StopConn("c1")
    \/ \E t \in Threads : CycleStep(t)

CycleSpec == InitCycle /\ [][NextCycle]_vars

\* The call of lines 146-153 for the item thread t is about to visit, as
\* the transport client answering rc makes it end.
NextPublishCall(t, rc) == publish_device_data(PublishKw(t, Head(pubq[t])), rc)

\* Thread t makes that call in this step.
PublishCalled(t) ==
    /\ tpc[t] = "publish" /\ pubq[t] # <<>>
    /\ pubq'[t] # pubq[t]
    /\ ~data[t].val[Head(pubq[t])].error

\* C15: the loop ends only by observing the run flag cleared; an exception
\* raised by the read step or by the publish step of a cycle is recorded as
\* last_error and the loop goes on with the cycle.
C15_ExceptionsRecorded ==
    [][\A t \in Threads :
          /\ (tpc[t] # "done" /\ tpc'[t] = "done") => ~running[tself[t]]
          /\ (tpc[t] = "read" /\ tpc'[t] = "sleep")
             => last_error'[tself[t]] # "None"
          /\ (PublishCalled(t) /\ \A rc \in TransportResults :
                                     NextPublishCall(t, rc).raised)
             => /\ last_error'[tself[t]] # "None"
                /\ tpc'[t] = "publish"]_vars

\* The key under which _read_tags files the answer for a requested tag.
TagKey(tag) == strip(split0(tag))

\* C16: when the reader connection succeeds, every requested tag is in the
\* batch, with its value if its read succeeded and with an error entry if
\* not, and connected is set and last_error cleared however many failed.
C16_EveryTagInBatch ==
    [][\A t \in Threads :
          (tpc[t] = "read" /\ tpc'[t] = "publish")
          => /\ connected'[tself[t]]
             /\ last_error'[tself[t]] = "None"
             /\ LET cl == cleaned_tags(tags[tself[t]])
                IN \A i \in 1..Len(cl) :
                      /\ TagKey(cl[i]) \in Range(data'[t].keys)
                      /\ data'[t].val[TagKey(cl[i])].error
                            = (cl[i] \notin batchHist'[t].good)]_vars

C18_OnePayloadPerBatch ==
    \A t \in Threads :
        (/\ tpc[t] = "sleep"
         /\ mqtt_connected
         /\ \E k \in Range(data[t].keys) : ~data[t].val[k].error)
        => /\ Len(published) = batchHist[t].sent0 + 1
           /\ \A k \in Range(data[t].keys) :
                 ~data[t].val[k].error
                 => k \in Range(published[Len(published)].payload.keys)

\* ------------------------------------- publish_device_data on its own
\* The formatter and the publisher called with arguments that bind: a tag
\* snapshot, a device name, a hardware identifier and a format.
MaxSnap == 2

\* Tag names of a snapshot (the two keys the JSON payload writes itself
\* among them), tag values, hardware identifiers (None, '', a set one).
DeviceName == <<"d">>
SnapNames == {HWID, Timestamp, TagA, <<"B">>}
SnapValues == {<<"1">>, <<"2">>}
HardwareIds == {PyNone, <<>>, <<"X">>}
Formats == {"json", "string"}

\* The entries of a snapshot: {'error': ...} or {'value': ..., 'type': ...}.
SnapEntries ==
    {[error |-> TRUE, value |-> <<>>]}
        \cup {[error |-> FALSE, value |-> v] : v \in SnapValues}

\* The snapshots: dicts of at most MaxSnap tags.
SnapKeys ==
    {ks \in UNION {[1..n -> SnapNames] : n \in 0..MaxSnap} :
        \A i, j \in DOMAIN ks : i # j => ks[i] # ks[j]}
Snapshots ==
    UNION {{[keys |-> ks, val |-> f] : f \in [Range(ks) -> SnapEntries]} :
              ks \in SnapKeys}

\* The keyword arguments of the call fmt describes.
FormatKw ==
    [device_id |-> DeviceName, device_name |-> fmt.device_name,
     tag_data |-> fmt.tag_data, topic_prefix |-> <<"p", "/">>,
     hardware_id |-> fmt.hardware_id, mqtt_format |-> fmt.mqtt_format]

\* publish_device_data(...) is called and returns.
FormatCall ==
    /\ fmt.pc = "call"
    /\ \E rc \in TransportResults :
          LET r == publish_device_data(FormatKw, rc)
          IN /\ ~r.raised
             /\ published' = published \o r.sent
             /\ fmt' = [fmt EXCEPT !.pc = "done", !.ret = r.ret]
    /\ UNCHANGED <<connections, nobj, running, connected, thread, nthr, tpc,
                   tself, bridgeVars, tags, last_error, message_count,
                   storedFrame, data, pubq, mqtt_connected, batchHist, iter, mq,
                   batchVars, callerVars,
                   histVars>>

InitFormat ==
    /\ connections = [d \in DeviceIds |-> None]
    /\ nobj = 0
    /\ running = [s \in Sessions |-> FALSE]
    /\ connected = [s \in Sessions |-> FALSE]
    /\ thread = [s \in Sessions |-> None]
    /\ nthr = 0
    /\ tpc = [t \in Threads |-> "none"]
    /\ tself = [t \in Threads |-> None]
    /\ pc = [c \in Callers |-> "idle"]
    /\ meth = [c \in Callers |-> "-"]
    /\ arg = [c \in Callers |-> "-"]
    /\ conn = [c \in Callers |-> None]
    /\ ret = [c \in Callers |-> "-"]
    /\ cont = [c \in Callers |-> "idle"]
    /\ prevCall = [c \in Callers |-> <<"-", "-", "-">>]
    /\ ncalls = 0
    /\ bid = [c \in Callers |-> None]
    /\ devices = {}
    /\ lock = "-"
    /\ dev_updated = {}
    /\ was_running = [c \in Callers |-> FALSE]
    /\ statusOut = [c \in Callers |-> NoStatus]
    /\ itSize = [c \in Callers |-> 0]
    /\ allOut = [c \in Callers |-> {}]
    /\ removed = {}
    /\ observedAbsent = FALSE
    /\ regBefore = "-"
    /\ tags = [s \in Sessions |-> <<TagA>>]
    /\ last_error = [s \in Sessions |-> "None"]
    /\ message_count = [s \in Sessions |-> 0]
    /\ last_data = [s \in Sessions |-> NoStored]
    /\ last_update = [s \in Sessions |-> 0]
    /\ data = [t \in Threads |-> NoData]
    /\ pubq = [t \in Threads |-> <<>>]
    /\ mqtt_connected \in BOOLEAN
    /\ published = <<>>
    /\ batchHist = [t \in Threads |-> NoBatch]
    /\ iter = [t \in Threads |-> NoIter]
    /\ mq = NoClient
    /\ todo = [c \in Callers |-> {}]
    /\ \E snap \in Snapshots, hw \in HardwareIds, f \in Formats :
          fmt = [pc |-> "call", device_name |-> DeviceName, tag_data |-> snap,
                 hardware_id |-> hw, mqtt_format |-> f, ret |-> FALSE]

\* _on_connect, lines 98-107: the flag follows rc; _on_disconnect, lines
\* 109-115: the flag is cleared.  Neither touches a message.
formatFrame ==
    <<connections, nobj, running, connected, thread, nthr, tpc, tself,
      bridgeVars, tags, last_error, message_count, last_data, last_update,
      data, pubq, published, fmt,
      batchHist, iter, mq, batchVars, callerVars, histVars>>

OnConnect ==
    /\ \E rc0 \in BOOLEAN : mqtt_connected' = rc0
    /\ UNCHANGED formatFrame

OnDisconnect ==
    /\ mqtt_connected' = FALSE
    /\ UNCHANGED formatFrame

NextFormat == FormatCall \/ OnConnect \/ OnDisconnect
FormatSpec == InitFormat /\ [][NextFormat]_vars

\* The JSON payload a finished call handed to the publisher, and the tags
\* of the snapshot that carry no error.
JsonSent == fmt.pc = "done" /\ fmt.mqtt_format = "json" /\ published # <<>>
GoodTags == {k \in Range(fmt.tag_data.keys) : ~fmt.tag_data.val[k].error}

\* C19: the JSON payload has exactly the keys HWID, Timestamp and the names
\* of the tags without an error, and each such tag key maps to that tag's
\* value; a tag with an error entry contributes no key.
C19_PayloadKeys ==
    JsonSent
    => LET p == published[1].payload
       IN /\ Range(p.keys) = {HWID, Timestamp} \cup GoodTags
          /\ \A k \in GoodTags : p.val[k] = fmt.tag_data.val[k].value

\* C20: whatever the tag names of the snapshot, the HWID key of the JSON
\* payload holds the hardware identifier, or the device name when none is
\* set.
C20_HwidKey ==
    JsonSent
    => published[1].payload.val[HWID]
           = (IF fmt.hardware_id \in {PyNone, <<>>}
              THEN fmt.device_name ELSE fmt.hardware_id)

\* The delimited payload a finished call handed to the publisher.
StringSent == fmt.pc = "done" /\ fmt.mqtt_format = "string" /\ published # <<>>

\* w.split(','): the fields of a string between its commas.
RECURSIVE SplitComma(_, _)
SplitComma(w, cur) ==
    IF w = <<>> THEN <<cur>>
    ELSE IF <<Head(w)>> = Comma THEN <<cur>> \o SplitComma(Tail(w), <<>>)
    ELSE SplitComma(Tail(w), Append(cur, Head(w)))

\* The values of the tags without an error, in snapshot insertion order.
GoodValues ==
    LET ks == SelectSeq(fmt.tag_data.keys, LAMBDA k : k \in GoodTags)
    IN [i \in 1..Len(ks) |-> fmt.tag_data.val[ks[i]].value]

\* C21: the delimited payload consists of exactly k + 2 comma-separated
\* fields, k being the number of tags without an error (k >= 0): the
\* hardware identifier (or the device name), the k values in insertion
\* order, the timestamp.
C21_StringFields ==
    StringSent
    => SplitComma(published[1].payload, <<>>)
           = <<Or(fmt.hardware_id, fmt.device_name)>> \o GoodValues \o <<IsoNow>>

\* C22: publish called while the service is not connected returns failure
\* without handing the message to the transport client, and the message is
\* not kept for later: nothing reaches the transport client except in a
\* call made while connected.
C22_NotConnectedFails ==
    [][/\ (fmt.pc = "call" /\ fmt'.pc = "done" /\ ~mqtt_connected)
          => (~fmt'.ret /\ published' = published)
       /\ published' # published
          => (mqtt_connected /\ fmt.pc = "call" /\ fmt'.pc = "done")]_vars

\* C22 witness: a call made while not connected has returned failure, the
\* service has connected since, and nothing was handed over.
C22_Witness ==
    fmt.pc = "done" /\ ~fmt.ret /\ mqtt_connected /\ published = <<>>

\* --------------------------- app.py: calls on two devices of the bridge
\* get_all_devices_status, lines 264-266: the list is built under the lock.
BCallAll(c) == BCall(c, "bridge.get_all_devices_status", "b_all", None)

BGetAll(c) ==
    /\ pc[c] = "b_all"
    /\ lock = "-"
    /\ Return(c, "list")
    /\ UNCHANGED <<plcOnly, nobj, running, connected, thread, nthr, tpc, tself,
                   bridgeVars, meth, prevCall, ncalls, bid, was_running>>

\* Two devices are registered, 1 (started, its device_loop about to test
\* the flag) and 2; the calls are counted from here.
InitTwoDevices ==
    /\ connections = [d \in DeviceIds |-> None]
    /\ nobj = 2
    /\ running = [s \in Sessions |-> s = 1]
    /\ connected = [s \in Sessions |-> FALSE]
    /\ thread = [s \in Sessions |-> IF s = 1 THEN 1 ELSE None]
    /\ nthr = 1
    /\ tpc = [t \in Threads |-> IF t = 1 THEN "test" ELSE "none"]
    /\ tself = [t \in Threads |-> IF t = 1 THEN 1 ELSE None]
    /\ pc = [c \in Callers |-> "idle"]
    /\ meth = [c \in Callers |-> "-"]
    /\ arg = [c \in Callers |-> "-"]
    /\ conn = [c \in Callers |-> None]
    /\ ret = [c \in Callers |-> "-"]
    /\ cont = [c \in Callers |-> "idle"]
    /\ prevCall = [c \in Callers |-> <<"-", "-", "-">>]
    /\ ncalls = 0
    /\ bid = [c \in Callers |-> None]
    /\ devices = {1, 2}
    /\ lock = "-"
    /\ dev_updated = {}
    /\ was_running = [c \in Callers |-> FALSE]
    /\ statusOut = [c \in Callers |-> NoStatus]
    /\ itSize = [c \in Callers |-> 0]
    /\ allOut = [c \in Callers |-> {}]
    /\ removed = {}
    /\ observedAbsent = FALSE
    /\ regBefore = "-"
    /\ CycleIdle

\* The calls the two handler threads make: start, stop, remove of either
\* device and get_all_devices_status.
TwoDevicesCall(c) ==
    \/ BCallAll(c)
    \/ \E id \in devices :
          BCallRemove(c, id) \/ BCallStart(c, id) \/ BCallStop(c, id)

TwoDevicesStep(c) ==
    \/ BStart(c) \/ BGetAll(c)
    \/ BStopAcquire(c) \/ BStopBody(c) \/ BStopJoinExited(c) \/ BStopJoinTimeout(c)
    \/ BRemoveAcquire(c) \/ BRemoveBody(c)

NextTwoDevices ==
    \/ \E c \in Callers : TwoDevicesCall(c) \/ TwoDevicesStep(c)
    \/ \E t \in Threads : BLoopStep(t)

TwoDevicesSpec == InitTwoDevices /\ [][NextTwoDevices]_vars

\* Caller c is inside the join of stop_device for its device while that
\* device's loop is in a reader call; caller k has called a method that
\* begins with `with self.lock`.
WaitsInJoin(c) ==
    /\ pc[c] = "b_stop_join"
    /\ thread[bid[c]] # None
    /\ tpc[thread[bid[c]]] = "read"
AtLock(k) ==
    pc[k] \in {"b_start", "b_stop_acquire", "b_rm_acquire", "b_all"}

\* C23: while stop_device(A) waits for A's loop to exit, A's loop being in
\* a slow reader call, a start_device, stop_device or remove_device for
\* another identifier B and a get_all_devices_status can go on: the lock
\* they begin with is free.
C23_OthersNotBlocked ==
    \A c, k \in Callers :
        (/\ WaitsInJoin(c)
         /\ AtLock(k)
         /\ k # c
         /\ (pc[k] = "b_all" \/ bid[k] # bid[c]))
        => lock = "-"

\* ------------------------------------ PLCManager.start_all / stop_all
CallStartAll(c) ==
    /\ Call(c, "start_all", "all_list", "-")
    /\ UNCHANGED <<plcVars, histVars>>

CallStopAll(c) ==
    /\ Call(c, "stop_all", "all_list", "-")
    /\ UNCHANGED <<plcVars, histVars>>

\* Lines 260 and 267: list(self.connections.keys()), the identifiers
\* registered now (the order of the visits is left open).
AllList(c) ==
    /\ pc[c] = "all_list"
    /\ todo' = [todo EXCEPT ![c] = Registered]
    /\ pc' = [pc EXCEPT ![c] = "all_next"]
    /\ UNCHANGED <<connections, nobj, running, connected, thread, nthr, tpc,
                   tself, bridgeVars, cycleVars, histVars, meth, arg, conn, ret,
                   cont, prevCall, ncalls, bid, was_running, statusOut, itSize,
                   allOut>>

\* Mutant of AllNext: the batch ends at the first call that returns False.
AllNextAbort(c) ==
    /\ pc[c] = "all_next"
    /\ IF todo[c] = {} \/ ret[c] = "False"
       THEN /\ Return(c, "None")
            /\ UNCHANGED <<todo, arg>>
       ELSE \E d \in todo[c] :
               /\ todo' = [todo EXCEPT ![c] = @ \ {d}]
               /\ arg' = [arg EXCEPT ![c] = d]
               /\ pc' = [pc EXCEPT ![c] =
                           IF meth[c] = "start_all" THEN "sd_check" ELSE "st_check"]
               /\ cont' = [cont EXCEPT ![c] = "all_next"]
               /\ UNCHANGED ret
    /\ UNCHANGED <<connections, nobj, running, connected, thread, nthr, tpc,
                   tself, bridgeVars, cycleVars, histVars, meth, conn, prevCall,
                   ncalls, bid, was_running, statusOut, itSize, allOut>>

\* Lines 260-263 and 267-270: the for loop.  The next identifier goes to
\* self.start_device (self.stop_device), whose result is dropped; after the
\* last one the method returns None.
AllNext(c) ==
    /\ pc[c] = "all_next"
    /\ IF todo[c] = {}
       THEN /\ Return(c, "None")
            /\ UNCHANGED <<todo, arg>>
       ELSE \E d \in todo[c] :
               /\ todo' = [todo EXCEPT ![c] = @ \ {d}]
               /\ arg' = [arg EXCEPT ![c] = d]
               /\ pc' = [pc EXCEPT ![c] =
                           IF meth[c] = "start_all" THEN "sd_check" ELSE "st_check"]
               /\ cont' = [cont EXCEPT ![c] = "all_next"]
               /\ UNCHANGED ret
    /\ UNCHANGED <<connections, nobj, running, connected, thread, nthr, tpc,
                   tself, bridgeVars, cycleVars, histVars, meth, conn, prevCall,
                   ncalls, bid, was_running, statusOut, itSize, allOut>>

\* One handler thread adds, starts and stops devices and calls start_all
\* and stop_all, one call after the other; the loops run beside it.
NextAll ==
    \/ \E d \in DeviceIds :
          CallAdd("c1", d) \/ CallStart("c1", d) \/ CallStop("c1", d)
    \/ CallStartAll("c1") \/ CallStopAll("c1")
    \/ AddCheck("c1") \/ AddInsert("c1")
    \/ StartDeviceCheck("c1") \/ StartTest("c1") \/ StartSet("c1")
    \/ StopDeviceCheck("c1") \/ StopTest("c1") \/ StopClear("c1")
    \/ JoinExited("c1") \/ JoinTimeout("c1") \/ StopConn("c1")
    \/ AllList("c1") \/ AllNext("c1")
    \/ \E t \in Threads : LoopStep(t)

AllSpec == Init /\ [][NextAll]_vars

\* start_all (stop_all) returns.
AllReturns(c, m) ==
    pc[c] = "all_next" /\ meth[c] = m /\ pc'[c] = "idle"

\* C24: when start_all returns, every registered session has its run flag
\* set, whether or not its start failed because it was running already;
\* when stop_all returns, every registered session has its run flag
\* cleared.
C24_AllStartedOrStopped ==
    [][\A c \in Callers :
          /\ AllReturns(c, "start_all")
             => \A d \in Registered : running'[connections[d]]
          /\ AllReturns(c, "stop_all")
             => \A d \in Registered : ~running'[connections[d]]]_vars

\* C24 witness: start_all has returned with two sessions registered, one
\* of which the call before had started already, and both run.
C24_Witness ==
    /\ pc["c1"] = "idle" /\ meth["c1"] = "start_all" /\ ret["c1"] = "None"
    /\ prevCall["c1"][1] = "start_device" /\ prevCall["c1"][3] = "True"
    /\ Registered = DeviceIds
    /\ \A d \in Registered : running[connections[d]]

\* C25: across start, stop and restart of one device, its reads and its
\* publishes do not overlap: no loop of a session is in its read while a
\* publish of the same session has not returned.
C25_ReadAfterPublish ==
    \A t, u \in Threads :
        (t # u /\ tself[t] = tself[u] /\ tself[t] # None)
        => ~(tpc[t] = "read" /\ tpc[u] = "publish")

\* C26: once stop() has returned True, and until the next call, the
\* session reports connected = False: no loop still finishing a read sets
\* the flag on the stopped session.
C26_StoppedNotConnected ==
    \A c \in Callers :
        (/\ pc[c] = "idle"
         /\ meth[c] = "stop_device"
         /\ ret[c] = "True")
        => (~running[conn[c]] /\ ~connected[conn[c]])

\* ------------------------------- get_status beside the running loop
\* The session of InitCycle with the one tag "A" or with no tag, the MQTT
\* service connected; a second handler thread reads its status while the loop
\* runs and the first may stop it.
InitStatus ==
    /\ InitCycle
    /\ tags[1] \in {<<TagA>>, <<>>}
    /\ mqtt_connected

NextStatus ==
    \/ NextCycle
    \/ CallStatus("c2", "d1") \/ StatusCheck("c2") \/ StatusRead("c2")

StatusSpec == InitStatus /\ [][NextStatus]_vars

\* Caller c holds a snapshot that get_status returned.
HasSnapshot(c) ==
    pc[c] = "idle" /\ meth[c] = "get_device_status" /\ ret[c] = "status"

\* C27: a snapshot taken while the loop runs is not torn: its last_data
\* and its last_update were written by the same cycle, and it does not
\* show connected = True beside the error of a failed read.
C27_NoTornSnapshot ==
    \A c \in Callers :
        HasSnapshot(c)
        => /\ statusOut[c].last_data = statusOut[c].last_update
           /\ statusOut[c].connected => statusOut[c].last_error = "None"

\* C28: once stop() has cleared the run flag, no start following, a loop of
\* the session is admitted to no further cycle: it finishes the cycle it
\* is in (or was just admitted to) and its next test of the flag ends it.
C28_AtMostOneMoreCycle ==
    [][\A t \in Threads :
          (tself[t] # None /\ ~running[tself[t]])
          => /\ tpc'[t] = "read" => tpc[t] = "read"
             /\ (tpc[t] \in {"test", "sleep"} /\ tpc'[t] # tpc[t])
                => tpc'[t] = "done"]_vars

\* C28 witness: stop() has returned while the loop was inside its read;
\* the loop has finished that cycle (connected and last_update are its
\* writes) and has then exited.
C28_Witness ==
    /\ pc["c1"] = "idle" /\ meth["c1"] = "stop_device" /\ ret["c1"] = "True"
    /\ ~running[1]
    /\ tpc[1] = "done"
    /\ connected[1]
    /\ last_update[1] = 1

\* C29: in a cycle that produced a batch, the batch is stored in last_data
\* before the publish, the publish leaves it there and visits every item
\* once, whatever the call did, and last_update is stamped for this cycle
\* when the publish is over.
C29_StoredThenStamped ==
    [][\A t \in Threads :
          LET s == tself[t]
          IN /\ (tpc[t] = "read" /\ tpc'[t] = "publish")
                => (last_data'[s].data = data'[t] /\ data'[t] # NoData)
             /\ (tpc[t] = "publish" /\ pubq'[t] # pubq[t])
                => /\ pubq'[t] = Tail(pubq[t])
                   /\ tpc'[t] = "publish"
                   /\ UNCHANGED <<last_data, last_update>>
             /\ (tpc[t] = "publish" /\ tpc'[t] = "sleep")
                => /\ pubq[t] = <<>>
                   /\ last_data'[s].data = data[t]
                   /\ last_update'[s] = last_data'[s].cyc]_vars

\* C29 witness: a cycle has ended whose batch holds a value, whose publish
\* call raised, and whose batch and stamp are stored.
C29_Witness ==
    \E t \in Threads :
        /\ tpc[t] = "sleep"
        /\ \E k \in Range(data[t].keys) :
              /\ ~data[t].val[k].error
              /\ publish_device_data(PublishKw(t, k), "success").raised
        /\ last_data[tself[t]].data = data[t]
        /\ last_update[tself[t]] = last_data[tself[t]].cyc
        /\ last_update[tself[t]] > 0

\* C30: a read of a running session that fails leaves the session running,
\* not connected and with a last_error, and leaves last_data and
\* last_update as the last cycle with a batch wrote them.
C30_FailedReadKeepsData ==
    [][\A t \in Threads :
          LET s == tself[t]
          IN (tpc[t] = "read" /\ tpc'[t] = "sleep" /\ running[s])
             => /\ running'[s]
                /\ ~connected'[s]
                /\ last_error'[s] # "None"
                /\ last_data'[s] = last_data[s]
                /\ last_update'[s] = last_update[s]]_vars

\* C30 witness: after a cycle that stored and stamped a batch, a read of
\* the running session has failed at connection level.
C30_Witness ==
    \E t \in Threads :
        /\ tpc[t] = "sleep"
        /\ data[t] = NoData
        /\ running[tself[t]]
        /\ ~connected[tself[t]]
        /\ last_error[tself[t]] = "Read error"
        /\ last_data[tself[t]].cyc = 1
        /\ last_data[tself[t]].data # NoData
        /\ last_update[tself[t]] = 1

\* Thread t ends its read step, and its iteration, in this step.
ReadEnds(t) == tpc[t] = "read" /\ tpc'[t] # "read"
IterationEnds(t) ==
    tpc[t] \in {"read", "publish"} /\ tpc'[t] \notin {"read", "publish"}

\* C31: a cycle of a session whose tag names are all empty or blank opens
\* no reader connection, sets connected = False and last_error to the
\* no-tags error, publishes nothing and leaves last_data, last_update and
\* message_count as they are.
C31_NoTagsCycle ==
    [][\A t \in Threads :
          LET s == tself[t]
          IN (ReadEnds(t) /\ cleaned_tags(tags[s]) = <<>>)
             => /\ iter'[t].opens = 0
                /\ ~connected'[s]
                /\ last_error'[s] = "No tags configured"
                /\ published' = published
                /\ tpc'[t] = "sleep"
                /\ last_data'[s] = last_data[s]
                /\ last_update'[s] = last_update[s]
                /\ message_count'[s] = message_count[s]]_vars

\* C31 witness: a session configured with blank tag names only has ended
\* a cycle: no connector call, the no-tags error, nothing handed out.
C31_Witness ==
    \E t \in Threads :
        /\ tpc[t] = "sleep"
        /\ tags[tself[t]] # <<>>
        /\ cleaned_tags(tags[tself[t]]) = <<>>
        /\ iter[t].opens = 0 /\ iter[t].sleeps = 1
        /\ last_error[tself[t]] = "No tags configured"
        /\ ~connected[tself[t]]
        /\ published = <<>>

\* C32: every iteration of the loop, whatever its outcome, ends in exactly
\* one sleep of the configured poll interval, after which the flag is
\* tested again, and every iteration with a tag left opens one reader
\* connection: failures in a row neither lengthen the wait nor skip the
\* attempt.
C32_FixedCadence ==
    [][\A t \in Threads :
          /\ IterationEnds(t)
             => /\ tpc'[t] = "sleep"
                /\ iter'[t].sleeps = 1
                /\ iter'[t].wait = PollInterval
          /\ (ReadEnds(t) /\ cleaned_tags(tags[tself[t]]) # <<>>)
             => iter'[t].opens = 1
          /\ (tpc[t] = "sleep" /\ tpc'[t] # "sleep")
             => /\ tpc'[t] = (IF running[tself[t]] THEN "read" ELSE "done")
                /\ iter'[t] = iter[t]]_vars

\* C32 witness: the reader has failed in MaxFails iterations in a row; the
\* last of them opened its connection and sleeps one poll interval.
C32_Witness ==
    \E t \in Threads :
        /\ tpc[t] = "sleep"
        /\ last_error[tself[t]] = "Read error"
        /\ iter[t].failed = MaxFails
        /\ iter[t].opens = 1
        /\ iter[t].sleeps = 1
        /\ iter[t].wait = PollInterval

\* C33: an exception raised by device_service.update_tag_values does not
\* end the loop and leaves last_error, last_data, last_update and
\* message_count as the cycle's read and publish set them; the cycle goes
\* on to its sleep.
C33_DbErrorSwallowed ==
    [][\A t \in Threads :
          LET s == tself[t]
          IN (tpc[t] = "publish" /\ tpc'[t] # "publish" /\ iter'[t].db = "raised")
             => /\ tpc'[t] = "sleep"
                /\ last_error'[s] = last_error[s]
                /\ last_error'[s] = "None"
                /\ last_data'[s] = last_data[s]
                /\ last_data'[s].data = data[t]
                /\ last_update'[s] = batchHist[t].cyc
                /\ message_count'[s] = message_count[s]]_vars

\* C33 witness: the database update of a cycle has raised; the loop is in
\* its sleep with the cycle's batch and stamp stored and no error recorded,
\* and has since been admitted to no other cycle.
C33_Witness ==
    \E t \in Threads :
        /\ tpc[t] = "sleep"
        /\ iter[t].db = "raised"
        /\ last_error[tself[t]] = "None"
        /\ last_data[tself[t]].data = data[t] /\ data[t] # NoData
        /\ last_update[tself[t]] = last_data[tself[t]].cyc
        /\ last_update[tself[t]] > 0

\* ----------------------------- two handler threads making the same call
\* "d1" is not registered, or registered and not started, or registered
\* and started (its loop about to make its first test); each of the two
\* handler threads then makes one call, the same for both, for "d1":
\* add_device, start_device or remove_device, at any time.
TwinMethods == {"add_device", "start_device", "remove_device"}

InitTwin ==
    /\ regBefore \in {"absent", "stopped", "running"}
    /\ connections =
          [d \in DeviceIds |-> IF d = "d1" /\ regBefore # "absent" THEN 1 ELSE None]
    /\ nobj = (IF regBefore = "absent" THEN 0 ELSE 1)
    /\ running = [s \in Sessions |-> s = 1 /\ regBefore = "running"]
    /\ connected = [s \in Sessions |-> FALSE]
    /\ thread = [s \in Sessions |->
                   IF s = 1 /\ regBefore = "running" THEN 1 ELSE None]
    /\ nthr = (IF regBefore = "running" THEN 1 ELSE 0)
    /\ tpc = [t \in Threads |->
                IF t = 1 /\ regBefore = "running" THEN "test" ELSE "none"]
    /\ tself = [t \in Threads |->
                  IF t = 1 /\ regBefore = "running" THEN 1 ELSE None]
    /\ pc = [c \in Callers |-> "idle"]
    /\ meth = [c \in Callers |-> "-"]
    /\ arg = [c \in Callers |-> "-"]
    /\ conn = [c \in Callers |-> None]
    /\ ret = [c \in Callers |-> "-"]
    /\ cont = [c \in Callers |-> "idle"]
    /\ prevCall = [c \in Callers |-> <<"-", "-", "-">>]
    /\ ncalls = 0
    /\ bid = [c \in Callers |-> None]
    /\ devices = {}
    /\ lock = "-"
    /\ dev_updated = {}
    /\ was_running = [c \in Callers |-> FALSE]
    /\ statusOut = [c \in Callers |-> NoStatus]
    /\ itSize = [c \in Callers |-> 0]
    /\ allOut = [c \in Callers |-> {}]
    /\ removed = {}
    /\ observedAbsent = FALSE
    /\ CycleIdle

\* Handler thread c makes its call, the one the other thread makes.
TwinCall(c) ==
    /\ meth[c] = "-"
    /\ \E m \in TwinMethods :
          /\ \A k \in Callers : meth[k] \in {"-", m}
          /\ IF m = "add_device" THEN CallAdd(c, "d1")
             ELSE IF m = "start_device" THEN CallStart(c, "d1")
             ELSE CallRemove(c, "d1")

NextTwin ==
    \/ \E c \in Callers : TwinCall(c) \/ LifecycleStep(c)
    \/ \E t \in Threads : LoopStep(t)

TwinSpec == InitTwin /\ [][NextTwin]_vars

\* Both handler threads have made the call m and are out of it.
TwinDone(m) == \A c \in Callers : meth[c] = m /\ pc[c] = "idle"

\* The handler threads whose call returned True.
Succeeded == {c \in Callers : ret[c] = "True"}

\* C34: of two start() calls made by two threads on a stopped session,
\* exactly one returns True and exactly one loop thread is launched.
C34_OneStartWins ==
    (TwinDone("start_device") /\ regBefore = "stopped")
    => /\ Cardinality(Succeeded) = 1
       /\ nthr = 1

\* C35: of two add_device calls made by two threads with one unregistered
\* identifier, exactly one returns True, the other False, and the registry
\* holds the session the successful call created.
C35_OneAddWins ==
    (TwinDone("add_device") /\ regBefore = "absent")
    => /\ Cardinality(Succeeded) = 1
       /\ \A c \in Callers : ret[c] \in {"True", "False"}
       /\ \A c \in Succeeded : connections["d1"] = conn[c]

\* C36: of two remove_device calls made by two threads on one registered
\* identifier, exactly one returns True, the other returns False (not
\* found), and neither ends with an exception.
C36_OneRemoveWins ==
    (TwinDone("remove_device") /\ regBefore \in {"stopped", "running"})
    => /\ Cardinality(Succeeded) = 1
       /\ \A c \in Callers : ret[c] \in {"True", "False"}

\* C37: get_all_status running beside add_device or remove_device never
\* fails: it returns a list, with a snapshot for every session registered
\* when it returns, hence for every session that stayed registered
\* throughout the call.
C37_AllStatusNeverFails ==
    [][\A c \in Callers :
          (pc[c] = "ga_next" /\ pc'[c] # "ga_next")
          => /\ ret'[c] = "list"
             /\ allOut'[c] = Registered]_vars

\* ------------------------- MQTTClientService: connect and its callbacks
\* A transport client is "connecting" since connect() created it and
\* started its network loop, "failed" when its connect call raised, "up"
\* once its CONNACK was accepted, "refused" when it was not, "closing" once
\* connect() has called disconnect() on it to replace it (its network loop
\* is left running, line 63), and "closed" when its connection is over.
\* The callbacks run on the network loop thread of the client they belong
\* to, at any time after their cause.
mqttFrame ==
    <<connections, nobj, running, connected, thread, nthr, tpc, tself,
      bridgeVars, tags, last_error, message_count, last_data, last_update,
      data, pubq, published, fmt, batchHist, iter, batchVars, callerVars,
      histVars>>

\* connect(), lines 58-84: the present client, if any, is told to
\* disconnect; a new client is created, given the service's callbacks and
\* connected (the call returns, or raises: lines 81-84).
MqttConnect ==
    /\ mq.client < MaxClients
    /\ \E ok \in BOOLEAN :
          mq' = [client |-> mq.client + 1,
                 st |-> [k \in Clients |->
                           IF k = mq.client + 1
                           THEN (IF ok THEN "connecting" ELSE "failed")
                           ELSE IF k = mq.client /\ mq.st[k] \in {"connecting", "up"}
                           THEN "closing"
                           ELSE mq.st[k]]]
    /\ UNCHANGED <<mqtt_connected, mqttFrame>>

\* disconnect(), lines 86-96: the client's loop is stopped and the client
\* disconnected; connected = False.
MqttDisconnect ==
    /\ mq' = IF mq.client = 0 THEN mq
             ELSE [mq EXCEPT !.st[mq.client] = "closed"]
    /\ mqtt_connected' = FALSE
    /\ UNCHANGED mqttFrame

\* _on_connect, lines 98-107, called by client k: the flag follows rc,
\* whichever client calls.
OnConnectOf(k) ==
    /\ mq.st[k] = "connecting"
    /\ \E rc0 \in BOOLEAN :
          /\ mq' = [mq EXCEPT !.st[k] = IF rc0 THEN "up" ELSE "refused"]
          /\ mqtt_connected' = rc0
    /\ UNCHANGED mqttFrame

\* _on_disconnect, lines 109-115, called by client k, whose connection was
\* lost or whose disconnect() has been carried out: the flag is cleared,
\* whichever client calls.
OnDisconnectOf(k) ==
    /\ mq.st[k] \in {"up", "closing"}
    /\ mq' = [mq EXCEPT !.st[k] = "closed"]
    /\ mqtt_connected' = FALSE
    /\ UNCHANGED mqttFrame

\* MQTTClientService.__init__, lines 32-33: no client, not connected.
InitMqtt == InitFormat /\ ~mqtt_connected

NextMqtt ==
    \/ MqttConnect \/ MqttDisconnect
    \/ \E k \in Clients : OnConnectOf(k) \/ OnDisconnectOf(k)
    \/ FormatCall

MqttSpec == InitMqtt /\ [][NextMqtt]_vars

\* C38: while the client connect() created last is connected (its
\* _on_connect has reported rc = 0, it has not disconnected since and
\* disconnect() has not been called), connected is true: a disconnect
\* callback of a superseded client does not clear it.
C38_StaleDisconnectIgnored ==
    (mq.client # 0 /\ mq.st[mq.client] = "up") => mqtt_connected

\* -------------------------- app.py: a device_loop that ends by exception
\* publish_to_mqtt, lines 176-182: json.dumps raises on a value the reader
\* returned that is not JSON serialisable.  The call is outside the try of
\* lines 184-189 and device_loop (lines 191-204) has no handler: the
\* exception ends the thread, device.running being left as it is.
BLoopRaises(t) ==
    /\ tpc[t] = "publish"
    /\ tpc' = [tpc EXCEPT ![t] = "done"]
    /\ UNCHANGED <<connections, nobj, bridgeVars, cycleVars, batchVars, running,
                   connected, thread, nthr, tself, callerVars, histVars>>

\* The two devices of InitTwoDevices, started and stopped by the two
\* handler threads while their loops run.
NextLoops ==
    \/ \E c \in Callers :
          \/ \E id \in devices : BCallStart(c, id) \/ BCallStop(c, id)
          \/ BStart(c)
          \/ BStopAcquire(c) \/ BStopBody(c)
          \/ BStopJoinExited(c) \/ BStopJoinTimeout(c)
    \/ \E t \in Threads : BLoopStep(t) \/ BLoopRaises(t)

LoopsSpec == InitTwoDevices /\ [][NextLoops]_vars

\* C39: a registered device whose run flag is set has a live device_loop
\* thread; a loop that ends otherwise than by finding the flag cleared
\* does not leave the flag set.
C39_RunFlagMeansLoop ==
    \A d \in devices :
        running[d] => \E t \in Threads : Live(t) /\ tself[t] = d

\* The devices route update_device of caller c has answered with an error
\* after it had stopped the device (lines 167-169): the persistence update
\* reported the device missing (404) or raised (500).
UpdateFailedAfterStop(c) ==
    /\ pc[c] = "idle"
    /\ was_running[c]
    /\ ret[c] \in {"404", "500"}

\* C40: when update_device fails after it has stopped a running device,
\* the device's session is as before the request: registered and running.
C40_FailedUpdateRestores ==
    \A c \in Callers :
        UpdateFailedAfterStop(c)
        => /\ connections[arg[c]] # None
           /\ running[connections[arg[c]]]

====
